---- MODULE Spec2Model ----
(***************************************************************************)
(* A model of portfinder's process layer: the per-OS Finder backends       *)
(* (internal/process/process_linux.go, which holds the linux and the       *)
(* darwin backend, process_windows.go), enrichment, the container          *)
(* detector, the project-directory heuristic and Process.Kill              *)
(* (internal/process/process.go); and of what runs on it: the commands of  *)
(* main.go and the interactive list and port views of the ui package.      *)
(*                                                                         *)
(* Text is modelled as sequences of one-character strings, so that         *)
(* strings.Contains, strings.Split, strings.Index, strconv.Atoi and slice  *)
(* expressions are computed as the code computes them.  A line of tool     *)
(* output is the sequence of its whitespace-separated fields.              *)
(***************************************************************************)
EXTENDS Integers, Sequences, FiniteSets, TLC

VARIABLES
    platform,     \* build target of the running binary: "linux", "darwin", "windows"
    tools,        \* the introspection commands that can be run on this host
    table,        \* the OS socket table (sequence of sockets, in listing order)
    last,         \* the Finder call of this invocation and what it returned
    dk,           \* container detector: input cgroup text and returned pair
    pj,           \* project heuristic: input path, filesystem and returned value
    kl,           \* Process.Kill: the target process and the calls made on it
    cli,          \* one invocation of the command line: what it called and its exit code
    ui            \* the interactive list: its model, the commands in flight, the last Update

vars == <<platform, tools, table, last, dk, pj, kl, cli, ui>>

-----------------------------------------------------------------------------
(* Bounds of the model.                                                    *)

MaxSockets == 2      \* sockets in the table
MaxPid == 2          \* owner pids are 0..MaxPid (0: the kernel's pseudo-process)
MaxLines == 2        \* lines of a cgroup file
MaxDepth == 4        \* segments of a start path

-----------------------------------------------------------------------------
(* Text helpers: Go's strings and strconv packages on character sequences. *)

\* s[i:j] with Go's 0-based half-open indices.
Slice(s, i, j) == SubSeq(s, i + 1, j)

\* strings.Index(s, sub): 0-based index of the first occurrence, -1 if none.
Index(s, sub) ==
    LET hits == { i \in 0..(Len(s) - Len(sub)) : Slice(s, i, i + Len(sub)) = sub }
    IN  IF hits = {} THEN 0 - 1
        ELSE CHOOSE i \in hits : \A k \in hits : i <= k

\* strings.LastIndex(s, sub).
LastIndex(s, sub) ==
    LET hits == { i \in 0..(Len(s) - Len(sub)) : Slice(s, i, i + Len(sub)) = sub }
    IN  IF hits = {} THEN 0 - 1
        ELSE CHOOSE i \in hits : \A k \in hits : i >= k

\* strings.Contains(s, sub).
Contains(s, sub) == Index(s, sub) >= 0

\* strings.HasSuffix(s, suf).
HasSuffix(s, suf) ==
    Len(s) >= Len(suf) /\ Slice(s, Len(s) - Len(suf), Len(s)) = suf

\* strings.Split(s, sep) for a one-character separator: always at least one part.
RECURSIVE Split(_, _)
Split(s, sep) ==
    LET i == Index(s, <<sep>>)
    IN  IF i < 0 THEN <<s>>
        ELSE <<Slice(s, 0, i)>> \o Split(Slice(s, i + 1, Len(s)), sep)

\* strings.Join(parts, sep).
RECURSIVE Join(_, _)
Join(parts, sep) ==
    IF Len(parts) = 0 THEN <<>>
    ELSE IF Len(parts) = 1 THEN parts[1]
    ELSE parts[1] \o sep \o Join(Tail(parts), sep)

DigitChars == <<"0", "1", "2", "3", "4", "5", "6", "7", "8", "9">>

IsDigit(c) == \E d \in 1..10 : DigitChars[d] = c

DigitVal(c) == (CHOOSE d \in 1..10 : DigitChars[d] = c) - 1

\* fmt.Sprintf("%d", n) / strconv.Itoa(n) for n >= 0.
RECURSIVE Itoa(_)
Itoa(n) ==
    IF n < 10 THEN <<DigitChars[n + 1]>>
    ELSE Itoa(n \div 10) \o <<DigitChars[(n % 10) + 1]>>

RECURSIVE DigitsValue(_)
DigitsValue(s) ==
    IF Len(s) = 0 THEN 0
    ELSE 10 * DigitsValue(Slice(s, 0, Len(s) - 1)) + DigitVal(s[Len(s)])

\* strconv.Atoi(s): an optional sign, then one or more decimal digits.
Atoi(s) ==
    LET signed == Len(s) > 0 /\ s[1] \in {"+", "-"}
        body   == IF signed THEN Tail(s) ELSE s
    IN  IF Len(body) = 0 \/ \E i \in 1..Len(body) : ~IsDigit(body[i])
        THEN [ok |-> FALSE, val |-> 0]
        ELSE [ok |-> TRUE,
              val |-> IF signed /\ s[1] = "-" THEN 0 - DigitsValue(body)
                      ELSE DigitsValue(body)]

\* strings.Contains(line, needle) on a line given as its fields, for a needle
\* that holds no whitespace: the needle lies within one field.
LineContains(fields, needle) ==
    \E i \in 1..Len(fields) : Contains(fields[i], needle)


-----------------------------------------------------------------------------
(* Container detector: isDockerProcess (process.go).                       *)

cDocker == <<"d", "o", "c", "k", "e", "r">>
cUnknown == <<"u", "n", "k", "n", "o", "w", "n">>

\* The length a container identifier is cut to.
ContainerIDLen == 12

\* isDockerProcess(pid), given whether /proc/<pid>/cgroup could be read and
\* its text.  Same as isDockerProcess but with the sentinel for a marker
\* without an identifier replaced by the empty identifier.
IsDockerProcessNoSentinel(readable, content) ==
    IF ~readable THEN [is |-> FALSE, id |-> <<>>]
    ELSE IF Contains(content, cDocker) THEN
        LET lines == Split(content, "\n")
            last_(l) == LET parts == Split(l, "/") IN parts[Len(parts)]
            hits  == { i \in 1..Len(lines) :
                         /\ Contains(lines[i], cDocker)
                         /\ Len(last_(lines[i])) >= ContainerIDLen }
        IN  IF hits = {} THEN [is |-> TRUE, id |-> <<>>]
            ELSE LET i == CHOOSE i \in hits : \A k \in hits : i <= k
                 IN  [is |-> TRUE, id |-> Slice(last_(lines[i]), 0, ContainerIDLen)]
    ELSE [is |-> FALSE, id |-> <<>>]

IsDockerProcess(readable, content) ==
    IF ~readable THEN [is |-> FALSE, id |-> <<>>]
    ELSE IF Contains(content, cDocker) THEN
        LET lines == Split(content, "\n")
            last_(l) == LET parts == Split(l, "/") IN parts[Len(parts)]
            hits  == { i \in 1..Len(lines) :
                         /\ Contains(lines[i], cDocker)
                         /\ Len(last_(lines[i])) >= ContainerIDLen }
        IN  IF hits = {} THEN [is |-> TRUE, id |-> cUnknown]
            ELSE LET i == CHOOSE i \in hits : \A k \in hits : i <= k
                 IN  [is |-> TRUE, id |-> Slice(last_(lines[i]), 0, ContainerIDLen)]
    ELSE [is |-> FALSE, id |-> <<>>]

-----------------------------------------------------------------------------
(* Project-directory heuristic: detectProject (process.go), with the       *)
(* path/filepath functions it calls, for '/'-separated paths.              *)

cSlash == <<"/">>
cDot == <<".">>
cDotDot == <<".", ".">>
cHome == <<"h", "o", "m", "e">>
cUsers == <<"U", "s", "e", "r", "s">>

\* The indicators of detectProject, in the order they are tested.
indicators == <<
    <<"p", "a", "c", "k", "a", "g", "e", ".", "j", "s", "o", "n">>,
    <<"g", "o", ".", "m", "o", "d">>,
    <<"C", "a", "r", "g", "o", ".", "t", "o", "m", "l">>,
    <<"p", "o", "m", ".", "x", "m", "l">>,
    <<"b", "u", "i", "l", "d", ".", "g", "r", "a", "d", "l", "e">>,
    <<"r", "e", "q", "u", "i", "r", "e", "m", "e", "n", "t", "s", ".", "t", "x", "t">>,
    <<"G", "e", "m", "f", "i", "l", "e">>,
    <<".", "g", "i", "t">> >>

\* The component stack of filepath.Clean after the components comps.
RECURSIVE CleanFold(_, _, _)
CleanFold(comps, out, rooted) ==
    IF Len(comps) = 0 THEN out
    ELSE LET c == comps[1]
             rest == Tail(comps)
         IN  IF c = <<>> \/ c = cDot THEN CleanFold(rest, out, rooted)
             ELSE IF c = cDotDot THEN
                 IF Len(out) > 0 /\ out[Len(out)] # cDotDot
                 THEN CleanFold(rest, SubSeq(out, 1, Len(out) - 1), rooted)
                 ELSE IF rooted THEN CleanFold(rest, out, rooted)
                 ELSE CleanFold(rest, Append(out, c), rooted)
             ELSE CleanFold(rest, Append(out, c), rooted)

\* filepath.Clean(path).
Clean(path) ==
    IF Len(path) = 0 THEN cDot
    ELSE LET rooted == path[1] = "/"
             out == CleanFold(Split(path, "/"), <<>>, rooted)
         IN  IF rooted THEN cSlash \o Join(out, cSlash)
             ELSE IF Len(out) = 0 THEN cDot
             ELSE Join(out, cSlash)

\* filepath.Dir(path): the path up to its last separator, cleaned.
Dir(path) == Clean(Slice(path, 0, LastIndex(path, cSlash) + 1))

\* path with its trailing separators removed.
RECURSIVE StripSlashes(_)
StripSlashes(path) ==
    IF Len(path) > 0 /\ path[Len(path)] = "/"
    THEN StripSlashes(Slice(path, 0, Len(path) - 1))
    ELSE path

\* filepath.Base(path).
Base(path) ==
    IF Len(path) = 0 THEN cDot
    ELSE LET p == StripSlashes(path)
             b == Slice(p, LastIndex(p, cSlash) + 1, Len(p))
         IN  IF Len(b) = 0 THEN cSlash ELSE b

\* filepath.Join(elem...): the elements from the first non-empty one on,
\* joined and cleaned; "" when every element is empty.
RECURSIVE JoinPath(_)
JoinPath(elems) ==
    IF Len(elems) = 0 THEN <<>>
    ELSE IF elems[1] = <<>> THEN JoinPath(Tail(elems))
    ELSE Clean(Join(elems, cSlash))

\* os.Stat(name) succeeds: fs is the set of the names that exist.
StatOk(name, fs) == name \in fs

\* Same as FirstIndicator but with the inner loop ending one indicator
\* early, so that the last indicator is never tested.
FirstIndicatorBelowLast(current, fs) ==
    LET hits == { i \in 1..(Len(indicators) - 1) :
                    StatOk(JoinPath(<<current, indicators[i]>>), fs) }
    IN  IF hits = {} THEN 0 ELSE CHOOSE i \in hits : \A k \in hits : i <= k

\* The indicators of `current` that the inner loop tests: up to and
\* including the first one that exists.
FirstIndicator(current, fs) ==
    LET hits == { i \in 1..Len(indicators) :
                    StatOk(JoinPath(<<current, indicators[i]>>), fs) }
    IN  IF hits = {} THEN 0 ELSE CHOOSE i \in hits : \A k \in hits : i <= k

\* Same as WalkStops but without the test for the directory ".".
WalkStopsNoDot(current, parent) ==
    parent = current \/ parent = cSlash

\* The loop's exit test on the parent directory.
WalkStops(current, parent) ==
    parent = current \/ parent = cSlash \/ parent = cDot

\* Same as Fallback but with the last two segments taken from four parts on.
FallbackFromFourParts(cwd) ==
    LET parts == Split(cwd, "/")
    IN  IF (Contains(cwd, cHome) \/ Contains(cwd, cUsers)) /\ Len(parts) > 3
        THEN JoinPath(SubSeq(parts, Len(parts) - 1, Len(parts)))
        ELSE Base(cwd)

\* The label returned when no indicator was found.
Fallback(cwd) ==
    LET parts == Split(cwd, "/")
    IN  IF (Contains(cwd, cHome) \/ Contains(cwd, cUsers)) /\ Len(parts) > 4
        THEN JoinPath(SubSeq(parts, Len(parts) - 1, Len(parts)))
        ELSE Base(cwd)

\* The start of a call of detectProject on the path raw.
DetectStart(raw) ==
    [pc |-> "enter", raw |-> raw, cwd |-> <<>>, current |-> <<>>,
     ret |-> <<>>, nstat |-> 0, visited |-> <<>>]

\* One iteration of the ancestor walk at s.current, given the first
\* indicator k found there (0: none) and the parent directory.
WalkStep(s, k, parent) ==
    IF k # 0
    THEN [s EXCEPT !.pc = "done", !.ret = s.current,
                   !.visited = Append(@, s.current), !.nstat = @ + k]
    ELSE IF WalkStops(s.current, parent)
    THEN [s EXCEPT !.pc = "fallback",
                   !.visited = Append(@, s.current), !.nstat = @ + Len(indicators)]
    ELSE [s EXCEPT !.current = parent,
                   !.visited = Append(@, s.current), !.nstat = @ + Len(indicators)]

\* Same as EnterClean but with the walk starting at the parent directory.
EnterCleanAtParent(s, cwd) == [s EXCEPT !.pc = "loop", !.cwd = cwd, !.current = Dir(cwd)]

\* The entry of detectProject on a path known not to be empty.
EnterClean(s, cwd) == [s EXCEPT !.pc = "loop", !.cwd = cwd, !.current = cwd]

\* One step of detectProject without its test for the empty path.
DetectStepNoEmptyTest(s, fs) ==
    IF s.pc = "enter" THEN EnterClean(s, Clean(s.raw))
    ELSE IF s.pc = "loop"
    THEN WalkStep(s, FirstIndicator(s.current, fs), Dir(s.current))
    ELSE IF s.pc = "fallback" THEN [s EXCEPT !.pc = "done", !.ret = Fallback(s.cwd)]
    ELSE s

\* One step of detectProject: the empty test and Clean; one iteration of
\* the ancestor walk; the fallback.
DetectStep(s, fs) ==
    IF s.pc = "enter" THEN
        IF s.raw = <<>> THEN [s EXCEPT !.pc = "done", !.ret = cUnknown]
        ELSE EnterClean(s, Clean(s.raw))
    ELSE IF s.pc = "loop"
    THEN WalkStep(s, FirstIndicator(s.current, fs), Dir(s.current))
    ELSE IF s.pc = "fallback" THEN [s EXCEPT !.pc = "done", !.ret = Fallback(s.cwd)]
    ELSE s

\* detectProject(pid, cwd) run to its return.
RECURSIVE DetectRun(_, _)
DetectRun(s, fs) == IF s.pc = "done" THEN s ELSE DetectRun(DetectStep(s, fs), fs)

DetectProject(cwd, fs) == DetectRun(DetectStart(cwd), fs).ret

-----------------------------------------------------------------------------
(* The host: its socket table and the text the introspection commands      *)
(* print for it.                                                           *)

Platforms == {"linux", "darwin", "windows"}

\* The introspection commands each backend runs.
ToolsOf(p) ==
    IF p = "linux" THEN {"ss", "netstat"}
    ELSE IF p = "darwin" THEN {"lsof"}
    ELSE {"netstat"}

ListenPorts == {80, 8080}
QueryPorts == {80, 8080}

\* A socket: protocol, state, address family, local port, remote port (0:
\* none), and the owning pid when the OS attributes the socket to a process.
Sockets ==
    { [proto |-> "tcp", state |-> "LISTEN", fam |-> f, lport |-> lp, rport |-> 0,
       known |-> k, pid |-> q] :
         f \in {4, 6}, lp \in ListenPorts, k \in BOOLEAN, q \in 0..MaxPid }
    \cup
    { [proto |-> "tcp", state |-> "ESTAB", fam |-> 4, lport |-> lp, rport |-> rp,
       known |-> TRUE, pid |-> 1] : lp \in ListenPorts, rp \in ListenPorts }
    \cup
    { [proto |-> "udp", state |-> "UNCONN", fam |-> 4, lport |-> lp, rport |-> 0,
       known |-> TRUE, pid |-> 1] : lp \in ListenPorts }

\* An unattributed socket carries no pid.
WellFormed(s) == s.known \/ s.pid = 0

cNode == <<"n", "o", "d", "e">>
cColon == <<":">>
cListen == <<"L", "I", "S", "T", "E", "N">>
cListening == <<"L", "I", "S", "T", "E", "N", "I", "N", "G">>
cPidEq == <<"p", "i", "d", "=">>

\* The executable name and the command line of a process.
ProcName(pid) == IF pid = 2 THEN cDocker ELSE cNode
ProcCommand(pid) == ProcName(pid)

\* ss -tulnp: header, then one line per listening TCP or unconnected UDP
\* socket: Netid State Recv-Q Send-Q Local Peer [Process].
SSHeader == <<<<"N", "e", "t", "i", "d">>, <<"S", "t", "a", "t", "e">>, <<"R", "e", "c", "v", "-", "Q">>, <<"S", "e", "n", "d", "-", "Q">>, <<"L", "o", "c", "a", "l">>, <<"A", "d", "d", "r", "e", "s", "s", ":", "P", "o", "r", "t">>, <<"P", "e", "e", "r">>, <<"A", "d", "d", "r", "e", "s", "s", ":", "P", "o", "r", "t">>, <<"P", "r", "o", "c", "e", "s", "s">>>>

SSLine(s) ==
    LET addr == IF s.fam = 4 THEN <<"0", ".", "0", ".", "0", ".", "0">> ELSE <<"[", ":", ":", "]">>
    IN  << IF s.proto = "tcp" THEN <<"t", "c", "p">> ELSE <<"u", "d", "p">>,
           IF s.state = "LISTEN" THEN cListen ELSE <<"U", "N", "C", "O", "N", "N">>,
           <<"0">>, <<"1", "2", "8">>,
           addr \o cColon \o Itoa(s.lport),
           addr \o cColon \o <<"*">> >>
        \o (IF s.known
            THEN << <<"u", "s", "e", "r", "s", ":", "(", "(", "\"">> \o ProcName(s.pid) \o <<"\"", ",">>
                    \o cPidEq \o Itoa(s.pid) \o <<",", "f", "d", "=", "3", ")", ")">> >>
            ELSE <<>>)

\* The lines a command prints for the sockets ss, one per socket.
SSLines(ss) == [i \in 1..Len(ss) |-> SSLine(ss[i])]

Listening(s) == s.state \in {"LISTEN", "UNCONN"}

\* Output of `ss -tulnp`.
SSOutput(t) == <<SSHeader>> \o SSLines(SelectSeq(t, Listening))

\* Output of `ss -tulnp "sport = :<port>"`: ss keeps the sockets whose
\* local port is the port.
SSOutputFor(t, port) ==
    LET keep(s) == Listening(s) /\ s.lport = port
    IN  <<SSHeader>> \o SSLines(SelectSeq(t, keep))

\* netstat -tulnp (Linux): two header lines, then
\* Proto Recv-Q Send-Q Local Foreign [State] PID/Program.
NetstatHeader == <<
    <<<<"A", "c", "t", "i", "v", "e">>, <<"I", "n", "t", "e", "r", "n", "e", "t">>, <<"c", "o", "n", "n", "e", "c", "t", "i", "o", "n", "s">>, <<"(", "o", "n", "l", "y">>, <<"s", "e", "r", "v", "e", "r", "s", ")">>>>,
    <<<<"P", "r", "o", "t", "o">>, <<"R", "e", "c", "v", "-", "Q">>, <<"S", "e", "n", "d", "-", "Q">>, <<"L", "o", "c", "a", "l">>, <<"A", "d", "d", "r", "e", "s", "s">>, <<"F", "o", "r", "e", "i", "g", "n">>, <<"A", "d", "d", "r", "e", "s", "s">>, <<"S", "t", "a", "t", "e">>, <<"P", "I", "D", "/", "P", "r", "o", "g", "r", "a", "m">>, <<"n", "a", "m", "e">>>> >>

NetstatLine(s) ==
    LET addr == IF s.fam = 4 THEN <<"0", ".", "0", ".", "0", ".", "0">> ELSE <<":", ":">>
    IN  << (IF s.proto = "tcp" THEN <<"t", "c", "p">> ELSE <<"u", "d", "p">>)
              \o (IF s.fam = 6 THEN <<"6">> ELSE <<>>),
           <<"0">>, <<"0">>,
           addr \o cColon \o Itoa(s.lport),
           addr \o cColon \o <<"*">> >>
        \o (IF s.state = "LISTEN" THEN <<cListen>> ELSE <<>>)
        \o << IF s.known THEN Itoa(s.pid) \o cSlash \o ProcName(s.pid) ELSE <<"-">> >>

NetstatLines(ss) == [i \in 1..Len(ss) |-> NetstatLine(ss[i])]

NetstatOutput(t) == NetstatHeader \o NetstatLines(SelectSeq(t, Listening))

\* netstat -ano -p tcp (Windows): every TCP socket, with the owning PID as
\* the last column (0 when the socket belongs to no process).
WinHeader == <<
    <<<<"A", "c", "t", "i", "v", "e">>, <<"C", "o", "n", "n", "e", "c", "t", "i", "o", "n", "s">>>>,
    <<<<"P", "r", "o", "t", "o">>, <<"L", "o", "c", "a", "l">>, <<"A", "d", "d", "r", "e", "s", "s">>, <<"F", "o", "r", "e", "i", "g", "n">>, <<"A", "d", "d", "r", "e", "s", "s">>, <<"S", "t", "a", "t", "e">>, <<"P", "I", "D">>>> >>

WinLine(s) ==
    LET addr == IF s.fam = 4 THEN <<"0", ".", "0", ".", "0", ".", "0">> ELSE <<"[", ":", ":", "]">>
    IN  << <<"T", "C", "P">>,
           addr \o cColon \o Itoa(s.lport),
           addr \o cColon \o Itoa(s.rport),
           IF s.state = "LISTEN" THEN cListening ELSE <<"E", "S", "T", "A", "B", "L", "I", "S", "H", "E", "D">>,
           Itoa(s.pid) >>

WinLines(ss) == [i \in 1..Len(ss) |-> WinLine(ss[i])]

IsTcp(s) == s.proto = "tcp"

WinOutput(t) == WinHeader \o WinLines(SelectSeq(t, IsTcp))

\* lsof -i -n -P (macOS): one line per internet socket of a visible process:
\* COMMAND PID USER FD TYPE DEVICE SIZE/OFF NODE NAME [(STATE)].
LsofHeader == <<<<"C", "O", "M", "M", "A", "N", "D">>, <<"P", "I", "D">>, <<"U", "S", "E", "R">>, <<"F", "D">>, <<"T", "Y", "P", "E">>, <<"D", "E", "V", "I", "C", "E">>, <<"S", "I", "Z", "E", "/", "O", "F", "F">>, <<"N", "O", "D", "E">>, <<"N", "A", "M", "E">>>>

LsofLine(s) ==
    << ProcName(s.pid), Itoa(s.pid), <<"u", "s", "e", "r">>, <<"3", "u">>,
       <<"I", "P", "v">> \o Itoa(s.fam), <<"0", "x", "1">>, <<"0", "t", "0">>,
       IF s.proto = "tcp" THEN <<"T", "C", "P">> ELSE <<"U", "D", "P">>,
       IF s.state = "ESTAB"
       THEN <<"1", "2", "7", ".", "0", ".", "0", ".", "1", ":">> \o Itoa(s.lport) \o <<"-", ">", "1", "2", "7", ".", "0", ".", "0", ".", "1", ":">> \o Itoa(s.rport)
       ELSE <<"*", ":">> \o Itoa(s.lport) >>
    \o (IF s.state = "LISTEN" THEN << <<"(", "L", "I", "S", "T", "E", "N", ")">> >>
        ELSE IF s.state = "ESTAB" THEN << <<"(", "E", "S", "T", "A", "B", "L", "I", "S", "H", "E", "D", ")">> >>
        ELSE <<>>)

LsofLines(ss) == [i \in 1..Len(ss) |-> LsofLine(ss[i])]

Visible(s) == s.known

\* The sockets `lsof -i` lists; lsof exits with status 1 when it lists none.
LsofListed(t) == LsofLines(SelectSeq(t, Visible))

\* The sockets `lsof -i :<port>` lists: local or remote port is the port.
LsofListedFor(t, port) ==
    LET keep(s) == s.known /\ (s.lport = port \/ s.rport = port)
    IN  LsofLines(SelectSeq(t, keep))

-----------------------------------------------------------------------------
(* Enrichment: enrichProcessInfo of each backend, getProcessDetails.       *)

\* The best-effort sub-queries of enrichment.  A call is given the set F of
\* the sub-queries that fail during it.
\*   name       linux /proc/<pid>/comm          windows tasklist
\*   cmd        linux /proc/<pid>/cmdline       darwin ps comm=,command=   windows wmic CommandLine
\*   cwd        linux readlink /proc/<pid>/cwd  darwin lsof -d cwd         windows wmic ExecutablePath
\*   start      linux /proc/<pid>/stat          darwin ps lstart=          windows wmic CreationDate
\*   startAlt   linux os.Stat(/proc/<pid>)      darwin time.Parse of the lstart text
\*   container  linux /proc/<pid>/cgroup
SubQueries == {"name", "cmd", "cwd", "start", "startAlt", "container"}

\* The sub-queries each backend has.
SubQueriesOf(p) ==
    IF p = "linux" THEN SubQueries
    ELSE IF p = "darwin" THEN {"cmd", "cwd", "start", "startAlt"}
    ELSE {"name", "cmd", "cwd", "start"}

\* The working directory of the listed processes and the marker files of the
\* host's filesystem.
HostCwd == <<"/", "h", "o", "m", "e", "/", "u", "/", "a", "/", "s">>
HostFS == { <<"/", "h", "o", "m", "e", "/", "u", "/", "a", "/", "g", "o", ".", "m", "o", "d">> }
HostProject == DetectProject(HostCwd, HostFS)

\* /proc/<pid>/cgroup of a process.
CgroupOf(pid) ==
    IF pid = 2 THEN <<"0", ":", ":", "/", "d", "o", "c", "k", "e", "r", "/", "0", "1", "2", "3", "4", "5", "6", "7", "8", "9", "a", "b", "c", "d", "e", "f">> \o <<"\n">>
    ELSE <<"0", ":", ":", "/", "u", "s", "e", "r", ".", "s", "l", "i", "c", "e">> \o <<"\n">>

\* Process{PID: pid, Name: name, Port: port}: the other fields at Go's zero
\* values (time.Time{} is "zero").
NewProcess(pid, name, port) ==
    [pid |-> pid, name |-> name, port |-> port, command |-> <<>>,
     projectPath |-> <<>>, startTime |-> "zero", isDocker |-> FALSE, dockerID |-> <<>>]

UpperChars == <<"A", "B", "C", "D", "E", "F", "G", "H", "I", "J", "K", "L", "M", "N", "O", "P", "Q", "R", "S", "T", "U", "V", "W", "X", "Y", "Z">>
LowerChars == <<"a", "b", "c", "d", "e", "f", "g", "h", "i", "j", "k", "l", "m", "n", "o", "p", "q", "r", "s", "t", "u", "v", "w", "x", "y", "z">>

\* strings.ToLower(s) for ASCII text.
ToLower(s) ==
    [i \in 1..Len(s) |->
        IF \E k \in 1..Len(UpperChars) : UpperChars[k] = s[i]
        THEN LowerChars[CHOOSE k \in 1..Len(UpperChars) : UpperChars[k] = s[i]]
        ELSE s[i]]

\* The steps of enrichProcessInfo (linux), in order: each takes the record
\* as the steps before it left it.
LinuxComm(p, F) ==
    IF p.name = <<>> /\ "name" \notin F
    THEN [p EXCEPT !.name = ProcName(p.pid)] ELSE p

LinuxCmdline(p, F) ==
    IF "cmd" \notin F THEN [p EXCEPT !.command = ProcCommand(p.pid)] ELSE p

LinuxCwd(p, F) ==
    IF "cwd" \notin F THEN [p EXCEPT !.projectPath = HostProject] ELSE p

LinuxStartTime(p, F) ==
    IF "start" \notin F THEN [p EXCEPT !.startTime = "kernel"]
    ELSE IF "startAlt" \notin F THEN [p EXCEPT !.startTime = "mtime"]
    ELSE p

SetDocker(p, d) == [p EXCEPT !.isDocker = d.is, !.dockerID = d.id]

LinuxDocker(p, F) ==
    SetDocker(p, IsDockerProcess("container" \notin F, CgroupOf(p.pid)))

\* enrichProcessInfo (linux): the enriched record and the sub-queries made.
EnrichLinux(proc, F) ==
    [proc |-> LinuxDocker(LinuxStartTime(LinuxCwd(LinuxCmdline(
                LinuxComm(proc, F), F), F), F), F),
     attempted |-> {"cmd", "cwd", "start", "container"}
                   \cup (IF proc.name = <<>> THEN {"name"} ELSE {})
                   \cup (IF "start" \in F THEN {"startAlt"} ELSE {})]

\* The steps of enrichProcessInfo (darwin) after the first ps succeeded.
DarwinCommand(p, F) == [p EXCEPT !.command = ProcCommand(p.pid)]

DarwinStartTime(p, F) ==
    IF "start" \in F THEN p
    ELSE IF "startAlt" \notin F THEN [p EXCEPT !.startTime = "kernel"]
    ELSE [p EXCEPT !.startTime = "now"]

DarwinCwd(p, F) ==
    IF "cwd" \notin F THEN [p EXCEPT !.projectPath = HostProject] ELSE p

DarwinDocker(p) ==
    IF Contains(p.command, cDocker) \/ Contains(p.name, <<"c", "o", "m", ".", "d", "o", "c", "k", "e", "r">>)
    THEN [p EXCEPT !.isDocker = TRUE] ELSE p

\* enrichProcessInfo (darwin): it returns at once when the first ps fails.
EnrichDarwin(proc, F) ==
    IF "cmd" \in F THEN [proc |-> proc, attempted |-> {"cmd"}]
    ELSE [proc |-> DarwinDocker(DarwinCwd(DarwinStartTime(
                     DarwinCommand(proc, F), F), F)),
          attempted |-> {"cmd", "start", "cwd"}
                        \cup (IF "start" \notin F THEN {"startAlt"} ELSE {})]

\* The steps of enrichProcessInfo (windows).
WinCommandLine(p, F) ==
    IF "cmd" \notin F THEN [p EXCEPT !.command = ProcCommand(p.pid)] ELSE p

WinCreationDate(p, F) ==
    IF "start" \notin F THEN [p EXCEPT !.startTime = "kernel"] ELSE p

WinStartFallback(p) ==
    IF p.startTime = "zero" THEN [p EXCEPT !.startTime = "now"] ELSE p

WinExecutablePath(p, F) ==
    IF "cwd" \notin F THEN [p EXCEPT !.projectPath = HostProject] ELSE p

WinProjectFromCommand(p) ==
    IF p.projectPath = <<>> /\ p.command # <<>>
       /\ (Contains(p.command, <<"\\">>) \/ Contains(p.command, cSlash))
    THEN [p EXCEPT !.projectPath = DetectProject(p.command, HostFS)]
    ELSE p

WinDocker(p) ==
    IF Contains(ToLower(p.name), cDocker) \/ Contains(ToLower(p.command), cDocker)
    THEN [p EXCEPT !.isDocker = TRUE] ELSE p

\* enrichProcessInfo (windows).
EnrichWindows(proc, F) ==
    [proc |-> WinDocker(WinProjectFromCommand(WinExecutablePath(WinStartFallback(
                WinCreationDate(WinCommandLine(proc, F), F)), F))),
     attempted |-> {"cmd", "start", "cwd"}]

\* A Finder result: at most one record, the error flag, the commands run.
Nothing(ran) == [procs |-> <<>>, err |-> FALSE, invoked |-> ran]
Failure(ran) == [procs |-> <<>>, err |-> TRUE, invoked |-> ran]

\* getProcessDetails (windows): nil for pid 0, an error when tasklist fails
\* or prints no row for the pid, else the enriched record.
GetProcessDetails(pid, port, F) ==
    IF pid = 0 THEN [procs |-> <<>>, err |-> FALSE, attempted |-> {}]
    ELSE IF "name" \in F THEN [procs |-> <<>>, err |-> TRUE, attempted |-> {"name"}]
    ELSE [procs |-> <<EnrichWindows(NewProcess(pid, ProcName(pid), port), F).proc>>,
          err |-> FALSE, attempted |-> {"name", "cmd", "start", "cwd"}]

-----------------------------------------------------------------------------
(* Finder, Linux backend (process_linux.go).                               *)

\* ":<port>" as fmt.Sprintf(":%d", port) prints it.
PortText(port) == cColon \o Itoa(port)

\* parseSSLine: the record of one ss line, or none.  A last field with
\* "pid=" but neither "," nor ")" after it makes the Go slice expression
\* panic; ss never prints one, and the model returns none there.
ParseSSLine(fields, port, F) ==
    IF Len(fields) < 7 THEN <<>>
    ELSE
    LET pidProg == fields[Len(fields)]
    IN  IF ~Contains(pidProg, cPidEq) THEN <<>>
        ELSE
        LET pidStart == Index(pidProg, cPidEq) + 4
            rest == Slice(pidProg, pidStart, Len(pidProg))
            comma == Index(rest, <<",">>)
            pidEnd == IF comma = 0 - 1 THEN Index(rest, <<")">>) ELSE comma
            pid == Atoi(Slice(pidProg, pidStart, pidStart + pidEnd))
        IN  IF ~pid.ok THEN <<>>
            ELSE << EnrichLinux(NewProcess(pid.val, <<>>, port), F).proc >>

\* parseNetstatLine: the record of one netstat line, or none.
ParseNetstatLine(fields, port, F) ==
    IF Len(fields) < 7 THEN <<>>
    ELSE
    LET pidProg == fields[7]
        parts == Split(pidProg, "/")
        pid == Atoi(parts[1])
    IN  IF pidProg = <<"-">> THEN <<>>
        ELSE IF Len(parts) # 2 THEN <<>>
        ELSE IF ~pid.ok THEN <<>>
        ELSE << EnrichLinux(NewProcess(pid.val, parts[2], port), F).proc >>

\* The first line that holds ":<port>" and "LISTEN", 0 if none.
FirstMatch(lines, port) ==
    LET hits == { i \in 1..Len(lines) :
                    /\ LineContains(lines[i], PortText(port))
                    /\ LineContains(lines[i], cListen) }
    IN  IF hits = {} THEN 0 ELSE CHOOSE i \in hits : \A k \in hits : i <= k

\* The loop of findUsingSS over the lines after the header: the first
\* matching line decides.
SSFirstMatch(lines, i, port, F) ==
    IF i = 0 THEN <<>> ELSE ParseSSLine(lines[i], port, F)

SSScan(lines, port, F) == SSFirstMatch(lines, FirstMatch(lines, port), port, F)

\* findUsingSS.
FindUsingSS(t, port, F, avail) ==
    IF "ss" \notin avail THEN Failure(<<"ss">>)
    ELSE [procs |-> SSScan(Tail(SSOutputFor(t, port)), port, F),
          err |-> FALSE, invoked |-> <<"ss">>]

\* The loop of findUsingNetstat over every line.
NetstatFirstMatch(lines, i, port, F) ==
    IF i = 0 THEN <<>> ELSE ParseNetstatLine(lines[i], port, F)

NetstatScan(lines, port, F) ==
    NetstatFirstMatch(lines, FirstMatch(lines, port), port, F)

\* findUsingNetstat.
FindUsingNetstat(t, port, F, avail) ==
    IF "netstat" \notin avail THEN Failure(<<"netstat">>)
    ELSE [procs |-> NetstatScan(NetstatOutput(t), port, F),
          err |-> FALSE, invoked |-> <<"netstat">>]

\* FindByPort (linux) given what findUsingSS returned: its record if it
\* returned one, else whatever findUsingNetstat returns.
SSOrNetstat(viaSS, t, port, F, avail) ==
    IF ~viaSS.err /\ viaSS.procs # <<>> THEN viaSS
    ELSE [FindUsingNetstat(t, port, F, avail) EXCEPT !.invoked = <<"ss">> \o @]

\* platformFinder.FindByPort (linux).
FindByPortLinux(t, port, F, avail) ==
    SSOrNetstat(FindUsingSS(t, port, F, avail), t, port, F, avail)

\* The port of an address column: the text after its last ':', as a number.
AddrPort(addr) ==
    LET parts == Split(addr, ":")
    IN  IF Len(parts) < 2 THEN [ok |-> FALSE, val |-> 0]
        ELSE Atoi(parts[Len(parts)])

\* parseSSOutput: the lines after the header, local address in column 5.
RECURSIVE ParseSSLines(_, _)
ParseSSLines(lines, F) ==
    IF Len(lines) = 0 THEN <<>>
    ELSE
    LET fields == lines[1]
        port == AddrPort(fields[5])
        here == IF ~LineContains(fields, cListen) THEN <<>>
                ELSE IF Len(fields) < 5 THEN <<>>
                ELSE IF ~port.ok THEN <<>>
                ELSE ParseSSLine(fields, port.val, F)
    IN  here \o ParseSSLines(Tail(lines), F)

ParseSSOutput(lines, F) == ParseSSLines(Tail(lines), F)

\* parseNetstatOutput (linux): every line, local address in column 4.
RECURSIVE ParseNetstatOutput(_, _)
ParseNetstatOutput(lines, F) ==
    IF Len(lines) = 0 THEN <<>>
    ELSE
    LET fields == lines[1]
        port == AddrPort(fields[4])
        here == IF ~LineContains(fields, cListen) THEN <<>>
                ELSE IF Len(fields) < 7 THEN <<>>
                ELSE IF ~port.ok THEN <<>>
                ELSE ParseNetstatLine(fields, port.val, F)
    IN  here \o ParseNetstatOutput(Tail(lines), F)

\* platformFinder.ListAll (linux).
ListAllLinux(t, F, avail) ==
    IF "ss" \in avail
    THEN [procs |-> ParseSSOutput(SSOutput(t), F), err |-> FALSE,
          invoked |-> <<"ss">>]
    ELSE IF "netstat" \in avail
    THEN [procs |-> ParseNetstatOutput(NetstatOutput(t), F), err |-> FALSE,
          invoked |-> <<"ss", "netstat">>]
    ELSE Failure(<<"ss", "netstat">>)

-----------------------------------------------------------------------------
(* Finder, macOS backend (process_darwin.go).                              *)

\* The first line from the second on that has at least 9 fields, holds
\* "LISTEN" and has a numeric PID column; 0 if none.
FirstLsofListen(lines) ==
    LET hits == { i \in 2..Len(lines) :
                    /\ Len(lines[i]) >= 9
                    /\ LineContains(lines[i], cListen)
                    /\ Atoi(lines[i][2]).ok }
    IN  IF hits = {} THEN 0 ELSE CHOOSE i \in hits : \A k \in hits : i <= k

\* The record parseLsofOutput builds from line i (0: no such line).
LsofRecord(lines, i, port, F) ==
    IF i = 0 THEN <<>>
    ELSE << EnrichDarwin(
              NewProcess(Atoi(lines[i][2]).val, lines[i][1], port), F).proc >>

\* parseLsofOutput.
ParseLsofOutput(lines, port, F) ==
    IF Len(lines) < 2 THEN <<>>
    ELSE LsofRecord(lines, FirstLsofListen(lines), port, F)

\* FindByPort (darwin) given the sockets lsof lists: exit status 1 of lsof,
\* nothing listed, is "no process".
LsofFind(listed, port, F) ==
    IF listed = <<>> THEN Nothing(<<"lsof">>)
    ELSE [procs |-> ParseLsofOutput(<<LsofHeader>> \o listed, port, F),
          err |-> FALSE, invoked |-> <<"lsof">>]

\* platformFinder.FindByPort (darwin).
FindByPortDarwin(t, port, F, avail) ==
    IF "lsof" \notin avail THEN Failure(<<"lsof">>)
    ELSE LsofFind(LsofListedFor(t, port), port, F)

\* The submatch of the regular expression :(\d+)\s+\(LISTEN\) on a line:
\* a field that ends in ':' and digits, followed by a field that begins
\* with "(LISTEN)".
LsofListenPort(fields) ==
    LET hits == { i \in 1..(Len(fields) - 1) :
                    /\ Index(fields[i + 1], <<"(", "L", "I", "S", "T", "E", "N", ")">>) = 0
                    /\ Len(Split(fields[i], ":")) >= 2
                    /\ LET parts == Split(fields[i], ":")
                           d == parts[Len(parts)]
                       IN  Len(d) > 0 /\ \A k \in 1..Len(d) : IsDigit(d[k]) }
    IN  IF hits = {} THEN [ok |-> FALSE, val |-> 0]
        ELSE LET i == CHOOSE i \in hits : \A k \in hits : i <= k
                 parts == Split(fields[i], ":")
             IN  Atoi(parts[Len(parts)])

\* The loop of parseLsofOutputMultiple: done holds the (pid, port) keys of
\* processMap so far.
\* Whether the loop of parseLsofOutputMultiple passes over a line, given
\* the port and pid parsed from it.
LsofSkip(fields, port, pid, done) ==
    \/ Len(fields) < 9
    \/ ~LineContains(fields, cListen)
    \/ ~port.ok
    \/ ~pid.ok
    \/ <<pid.val, port.val>> \in done

\* The record of a line that is not passed over.
LsofEntry(fields, port, pid, F) ==
    << EnrichDarwin(NewProcess(pid.val, fields[1], port.val), F).proc >>

\* The loop of parseLsofOutputMultiple: done holds the (pid, port) keys of
\* processMap so far.
RECURSIVE ParseLsofLines(_, _, _)
LsofLoop(lines, port, pid, done, F) ==
    IF LsofSkip(lines[1], port, pid, done)
    THEN ParseLsofLines(Tail(lines), done, F)
    ELSE LsofEntry(lines[1], port, pid, F)
         \o ParseLsofLines(Tail(lines), done \cup {<<pid.val, port.val>>}, F)

ParseLsofLines(lines, done, F) ==
    IF Len(lines) = 0 THEN <<>>
    ELSE LsofLoop(lines, LsofListenPort(lines[1]),
                  IF Len(lines[1]) >= 2 THEN Atoi(lines[1][2])
                  ELSE [ok |-> FALSE, val |-> 0],
                  done, F)

\* parseLsofOutputMultiple, records in the order their keys entered the map.
ParseLsofOutputMultiple(lines, F) ==
    IF Len(lines) < 2 THEN <<>> ELSE ParseLsofLines(Tail(lines), {}, F)

\* ListAll (darwin) given the sockets lsof lists: any failure of lsof, its
\* exit status 1 for "nothing listed" included, is an error.
LsofList(listed, F) ==
    IF listed = <<>> THEN Failure(<<"lsof">>)
    ELSE [procs |-> ParseLsofOutputMultiple(<<LsofHeader>> \o listed, F),
          err |-> FALSE, invoked |-> <<"lsof">>]

\* platformFinder.ListAll (darwin).
ListAllDarwin(t, F, avail) ==
    IF "lsof" \notin avail THEN Failure(<<"lsof">>)
    ELSE LsofList(LsofListed(t), F)

-----------------------------------------------------------------------------
(* Finder, Windows backend (process_windows.go).                           *)

WhiteSpace == {" ", "\t", "\r", "\n"}

\* The regular expression :<port>\s+ matches the line: ":<port>" directly
\* before white space, that is, at the end of a field (the line ends "\r").
WinPortMatch(fields, port) ==
    \E i \in 1..Len(fields) : HasSuffix(fields[i], PortText(port))

\* findPIDByPort: the PID column of the first LISTENING line that matches
\* and has a numeric last field; 0 if none.
FindPIDByPort(lines, port) ==
    LET hits == { i \in 1..Len(lines) :
                    /\ LineContains(lines[i], cListening)
                    /\ WinPortMatch(lines[i], port)
                    /\ Len(lines[i]) >= 5
                    /\ Atoi(lines[i][Len(lines[i])]).ok }
    IN  IF hits = {} THEN 0
        ELSE LET i == CHOOSE i \in hits : \A k \in hits : i <= k
             IN  Atoi(lines[i][Len(lines[i])]).val

\* What FindByPort (windows) returns for getProcessDetails' result d.
WinDetails(d) == [procs |-> d.procs, err |-> d.err, invoked |-> <<"netstat">>]

\* FindByPort (windows) given the pid of findPIDByPort.
WinFind(pid, port, F) ==
    IF pid = 0 THEN Nothing(<<"netstat">>)
    ELSE WinDetails(GetProcessDetails(pid, port, F))

\* platformFinder.FindByPort (windows).
FindByPortWindows(t, port, F, avail) ==
    IF "netstat" \notin avail THEN Failure(<<"netstat">>)
    ELSE WinFind(FindPIDByPort(WinOutput(t), port), port, F)

\* The submatch of the regular expression :(\d+)\s+ on one text: ':', one or
\* more digits, then white space, leftmost.
PortRegexSubmatch(text) ==
    LET hits == { a \in 1..Len(text) :
                    /\ text[a] = ":"
                    /\ \E b \in (a + 1)..(Len(text) - 1) :
                          /\ \A k \in (a + 1)..b : IsDigit(text[k])
                          /\ text[b + 1] \in WhiteSpace }
    IN  IF hits = {} THEN [ok |-> FALSE, val |-> 0]
        ELSE LET a == CHOOSE a \in hits : \A k \in hits : a <= k
                 b == CHOOSE b \in (a + 1)..(Len(text) - 1) :
                         /\ \A k \in (a + 1)..b : IsDigit(text[k])
                         /\ text[b + 1] \in WhiteSpace
             IN  Atoi(SubSeq(text, a + 1, b))

\* The loop of parseNetstatOutput (windows); the regular expression is
\* applied to the local-address field, which strings.Fields has stripped of
\* white space.
\* Whether the loop of parseNetstatOutput (windows) passes over a line
\* before it asks for the process details.
WinSkip(fields, port, pid, done) ==
    \/ ~LineContains(fields, cListening)
    \/ Len(fields) < 5
    \/ ~port.ok
    \/ ~pid.ok \/ pid.val = 0
    \/ <<pid.val, port.val>> \in done

RECURSIVE ParseWinLines(_, _, _)
\* The rest of the loop body for a line not passed over: the record is kept
\* unless getProcessDetails fails or returns nil.
WinKeep(lines, d, key, done, F) ==
    IF d.err \/ d.procs = <<>> THEN ParseWinLines(Tail(lines), done, F)
    ELSE d.procs \o ParseWinLines(Tail(lines), done \cup {key}, F)

WinLoop(lines, port, pid, done, F) ==
    IF WinSkip(lines[1], port, pid, done)
    THEN ParseWinLines(Tail(lines), done, F)
    ELSE WinKeep(lines, GetProcessDetails(pid.val, port.val, F),
                 <<pid.val, port.val>>, done, F)

ParseWinLines(lines, done, F) ==
    IF Len(lines) = 0 THEN <<>>
    ELSE WinLoop(lines,
                 IF Len(lines[1]) >= 2 THEN PortRegexSubmatch(lines[1][2])
                 ELSE [ok |-> FALSE, val |-> 0],
                 Atoi(lines[1][Len(lines[1])]),
                 done, F)

\* platformFinder.ListAll (windows), records in the order their keys
\* entered the map.
ListAllWindows(t, F, avail) ==
    IF "netstat" \notin avail THEN Failure(<<"netstat">>)
    ELSE [procs |-> ParseWinLines(WinOutput(t), {}, F), err |-> FALSE,
          invoked |-> <<"netstat">>]

-----------------------------------------------------------------------------
(* The Finder of the running binary.                                       *)

\* finder.FindByPort(port) of NewFinder().
FindByPort(p, t, port, F, avail) ==
    IF p = "linux" THEN FindByPortLinux(t, port, F, avail)
    ELSE IF p = "darwin" THEN FindByPortDarwin(t, port, F, avail)
    ELSE FindByPortWindows(t, port, F, avail)

\* finder.ListAll() of NewFinder().
ListAll(p, t, F, avail) ==
    IF p = "linux" THEN ListAllLinux(t, F, avail)
    ELSE IF p = "darwin" THEN ListAllDarwin(t, F, avail)
    ELSE ListAllWindows(t, F, avail)

\* The orders in which a Go map of n entries may be ranged over.
Orders(n) == { f \in [1..n -> 1..n] : \A i, j \in 1..n : f[i] = f[j] => i = j }

(***************************************************************************)
(* Process.Kill (process.go): os.FindProcess, SIGTERM, a sleep of the      *)
(* grace period, the signal-0 probe, os.Process.Kill.  A run is a record   *)
(*   pc        where Kill stands: "called", "found", "sleep", "force",     *)
(*             "done"                                                      *)
(*   alive     whether the process with this PID exists                    *)
(*   permitted whether the caller may signal it                            *)
(*   elapsed   whole seconds of the sleep that have passed                 *)
(*   log       the calls made on the process so far, in order              *)
(*   atGrace   whether the process existed when the sleep returned         *)
(*   ret       "ok" for a nil error, else the error that is returned       *)
(***************************************************************************)
GraceSeconds == 2

IdleKl ==
    [pc |-> "idle", pid |-> 0, alive |-> FALSE, permitted |-> FALSE,
     elapsed |-> 0, log |-> <<>>, atGrace |-> FALSE, ret |-> "none"]

KillStart(pid, alive, permitted) ==
    [IdleKl EXCEPT !.pc = "called", !.pid = pid, !.alive = alive,
                   !.permitted = permitted]

\* The process exits (by itself, or because it handled SIGTERM).
Exited(k) == [k EXCEPT !.alive = FALSE]

\* os.FindProcess: always a handle on unix; on windows the process is opened,
\* which fails for a PID that is gone or may not be opened.
KillFind(k, p) ==
    IF p = "windows" /\ ~(k.alive /\ k.permitted)
    THEN [k EXCEPT !.pc = "done", !.ret = "process not found"]
    ELSE [k EXCEPT !.pc = "found"]

\* process.Signal(SIGTERM): an error when the process is gone, may not be
\* signalled, or on windows, where only Kill can be sent.
KillSigterm(k, p) ==
    IF p = "windows" \/ ~k.alive \/ ~k.permitted
    THEN [k EXCEPT !.pc = "done", !.ret = "failed to send SIGTERM",
                   !.log = Append(@, "SIGTERM failed")]
    ELSE [k EXCEPT !.pc = "sleep", !.log = Append(@, "SIGTERM")]

\* One second of time.Sleep passes.
KillTick(k) == [k EXCEPT !.elapsed = @ + 1]

\* The sleep returns and signal 0 probes the process: the force kill follows
\* exactly when the probe reports no error.
KillWakeForceAlways(k) ==
    [k EXCEPT !.atGrace = k.alive, !.log = Append(@, "probe"), !.pc = "force"]

KillWake(k) ==
    IF k.alive
    THEN [k EXCEPT !.atGrace = TRUE, !.log = Append(@, "probe"), !.pc = "force"]
    ELSE [k EXCEPT !.atGrace = FALSE, !.log = Append(@, "probe"),
                   !.pc = "done", !.ret = "ok"]

\* process.Kill(): an error when the process has gone since the probe.
KillForce(k) ==
    IF k.alive
    THEN [k EXCEPT !.alive = FALSE, !.log = Append(@, "KILL"),
                   !.pc = "done", !.ret = "ok"]
    ELSE [k EXCEPT !.log = Append(@, "KILL failed"),
                   !.pc = "done", !.ret = "failed to kill process"]

\* When the sleep may return.
GraceOverAtOnce(k) == k.elapsed >= 0

GraceOver(k) == k.elapsed = GraceSeconds

\* The moments at which the target of a Kill call can exit: before the call,
\* during the sleep, between the probe and the force kill, or not at all.
ExitPoints == {"before", "grace", "race", "never"}

\* Process.Kill run to its return on a process that exits at point e.
KillRun(p, pid, permitted, e) ==
    LET k0 == KillStart(pid, e # "before", permitted)
        k1 == KillFind(k0, p)
        k2 == IF k1.pc = "found" THEN KillSigterm(k1, p) ELSE k1
        k3 == IF k2.pc = "sleep"
              THEN KillWake(IF e = "grace" THEN Exited(k2) ELSE k2)
              ELSE k2
    IN  IF k3.pc = "force"
        THEN KillForce(IF e = "race" THEN Exited(k3) ELSE k3)
        ELSE k3

-----------------------------------------------------------------------------
(***************************************************************************)
(* The command line (main.go) and the views it prints (ui).  An invocation *)
(* is a record of what it did:                                             *)
(*   cmd, args  the cobra command that ran and its arguments               *)
(*   badArg     strconv.Atoi refused the port argument                     *)
(*   queries    the FindByPort calls made, each with what it returned      *)
(*   listed     what ListAll returned, when it was called                  *)
(*   kill       what Process.Kill returned, when it was called             *)
(*   tui        whether the terminal program ran, and whether Run failed   *)
(*   shown      the ports the check view prints, each with its status      *)
(*   out        the last message printed                                   *)
(*   code       the exit code of the process                               *)
(***************************************************************************)
IdleCli ==
    [pc |-> "idle", cmd |-> "none", args |-> <<>>, badArg |-> FALSE,
     queries |-> <<>>, listed |-> "no", kill |-> "none", tui |-> "no",
     shown |-> {}, out |-> "none", code |-> 0]

\* os.Exit(code), or the return of main (code 0).
Exit(c, code) == [c EXCEPT !.pc = "exited", !.code = code]

\* ui.ErrorMsg / SuccessMsg / InfoMsg.
Msg(c, text) == [c EXCEPT !.out = text]

\* What a Finder call returns on a host where the ports of busy are listened
\* on and the introspection command fails or not: a record, none, an error.
FindOutcome(port, busy, failing) ==
    IF failing THEN "error" ELSE IF port \in busy THEN "found" ELSE "none"

\* finder.FindByPort(port), as the invocation sees it.
Query(c, port, busy, failing) ==
    [c EXCEPT !.queries =
        Append(@, [port |-> port, res |-> FindOutcome(port, busy, failing)])]

LastQuery(c) == c.queries[Len(c.queries)].res

\* ShowProcessDetail: the box, then the confirmation prompt and the kill.
ShowProcessDetail(c, interactive, answer, killRet) ==
    IF interactive /\ answer
    THEN Msg([c EXCEPT !.kill = killRet],
             IF killRet # "ok" THEN "Failed to kill process"
             ELSE "Process killed successfully")
    ELSE c

\* runPortCheck after the port argument was parsed.
PortCheckOf(c, port, busy, failing, answer, killRet) ==
    IF LastQuery(Query(c, port, busy, failing)) = "error"
    THEN Exit(Msg(Query(c, port, busy, failing), "Error checking port"), 1)
    ELSE IF LastQuery(Query(c, port, busy, failing)) = "none"
    THEN Exit(Msg(Query(c, port, busy, failing), "Port is free"), 0)
    ELSE Exit(ShowProcessDetail(Query(c, port, busy, failing), TRUE, answer,
                                killRet), 0)

RunPortCheck(c, busy, failing, answer, killRet) ==
    IF Len(c.args) = 0 THEN Exit(Msg(c, "help"), 0)
    ELSE IF ~Atoi(c.args[1]).ok
    THEN Exit(Msg([c EXCEPT !.badArg = TRUE], "Invalid port number"), 1)
    ELSE PortCheckOf(c, Atoi(c.args[1]).val, busy, failing, answer, killRet)

\* runKillProcess after the port argument was parsed.
KillProcessOf(c, port, busy, failing, killRet) ==
    IF LastQuery(Query(c, port, busy, failing)) = "error"
    THEN Exit(Msg(Query(c, port, busy, failing), "Error checking port"), 1)
    ELSE IF LastQuery(Query(c, port, busy, failing)) = "none"
    THEN Exit(Msg(Query(c, port, busy, failing), "Port is not in use"), 0)
    ELSE IF killRet # "ok"
    THEN Exit(Msg([Query(c, port, busy, failing) EXCEPT !.kill = killRet],
                  "Failed to kill process"), 1)
    ELSE Exit(Msg([Query(c, port, busy, failing) EXCEPT !.kill = killRet],
                  "Killed process"), 0)

RunKillProcess(c, busy, failing, killRet) ==
    IF ~Atoi(c.args[1]).ok
    THEN Exit(Msg([c EXCEPT !.badArg = TRUE], "Invalid port number"), 1)
    ELSE KillProcessOf(c, Atoi(c.args[1]).val, busy, failing, killRet)

\* tea.NewProgram(...).Run() of a view; an error of Run ends with code 1.
RunProgram(c, tuiErr) ==
    IF tuiErr THEN Exit(Msg([c EXCEPT !.tui = "error"], "Error"), 1)
    ELSE Exit([c EXCEPT !.tui = "ok"], 0)

\* runListAll.
RunListAll(c, failing, tuiErr) ==
    IF failing
    THEN Exit(Msg([c EXCEPT !.listed = "error"], "Error listing ports"), 1)
    ELSE RunProgram([c EXCEPT !.listed = "ok"], tuiErr)

\* The loop of runCheckCommon over cfg.CommonPorts: the error of FindByPort
\* is dropped, the record (nil on none and on error) is stored.
RECURSIVE CheckLoop(_, _, _, _)
CheckLoop(c, ports, busy, failing) ==
    IF ports = <<>> THEN c
    ELSE CheckLoop(Query(c, Head(ports), busy, failing), Tail(ports), busy,
                   failing)

\* results[port] of runCheckCommon: the ports whose stored record is not nil.
ResultsUsed(c) ==
    { c.queries[i].port : i \in { j \in 1..Len(c.queries) :
                                     c.queries[j].res = "found" } }

\* The categories of PortCheckModel.View.
Categories ==
    << [Name |-> "Frontend",  Ports |-> <<3000, 3001, 4200, 5173, 8080>>],
       [Name |-> "Backend",   Ports |-> <<4000, 5000, 8000, 9000>>],
       [Name |-> "Databases", Ports |-> <<3306, 5432, 6379, 27017>>],
       [Name |-> "Tools",     Ports |-> <<9200, 9090, 3100, 8983>>] >>

\* PortCheckModel.View: one line per port of the categories, in use when the
\* map holds a record for it and available otherwise.
PortCheckView(used) ==
    UNION { { [port |-> Categories[g].Ports[i],
               status |-> IF Categories[g].Ports[i] \in used THEN "used"
                          ELSE "available"] :
                i \in 1..Len(Categories[g].Ports) } :
            g \in 1..Len(Categories) }

\* runCheckCommon.
RunCheckCommon(c, ports, busy, failing, tuiErr) ==
    RunProgram([CheckLoop(c, ports, busy, failing) EXCEPT
                   !.shown = PortCheckView(ResultsUsed(CheckLoop(c, ports, busy,
                                                                failing)))],
               tuiErr)

\* cobra's argument check: at most one for the root command, exactly one for
\* kill; check and list take what they get.
ArgsOk(cmd, args) ==
    IF cmd = "port" THEN Len(args) <= 1
    ELSE IF cmd = "kill" THEN Len(args) = 1
    ELSE TRUE

-----------------------------------------------------------------------------
(***************************************************************************)
(* The interactive list (ui: ProcessListModel) on the bubbles table.  The  *)
(* model m of the program is a record                                      *)
(*   processes  the records listed, in order                               *)
(*   table      the table widget: its rows, its cursor, its page height    *)
(*   loading, message, showHelp                                            *)
(* and an Update yields the next model, the commands it starts, what the   *)
(* Process.Kill it called returned, and whether it panicked on an index.   *)
(***************************************************************************)
TableHeight == 15

\* processToRow: the Port and PID columns of the row.
ProcessToRow(p) == <<Itoa(p.port), Itoa(p.pid)>>

RowsOf(ps) == [i \in 1..Len(ps) |-> ProcessToRow(ps[i])]

\* bubbles/table: clamp(v, low, high) = min(max(v, low), high).
Clamp(v, low, high) ==
    IF (IF v > low THEN v ELSE low) < high
    THEN (IF v > low THEN v ELSE low) ELSE high

\* bubbles/table MoveUp(n), MoveDown(n): on a table without rows the cursor
\* becomes -1.
MoveUp(t, n) == [t EXCEPT !.cursor = Clamp(@ - n, 0, Len(t.rows) - 1)]

MoveDown(t, n) == [t EXCEPT !.cursor = Clamp(@ + n, 0, Len(t.rows) - 1)]

\* bubbles/table SetRows: the releases that clamp pull a cursor beyond the
\* last row back onto it (to -1 when no row is left); the others leave it.
SetRows(t, rows, clamps) ==
    [t EXCEPT !.rows = rows,
              !.cursor = IF clamps /\ @ > Len(rows) - 1 THEN Len(rows) - 1 ELSE @]

\* bubbles/table Update on a key of its default key map.
TableUpdate(t, k) ==
    IF k \in {"up", "k"} THEN MoveUp(t, 1)
    ELSE IF k \in {"down", "j"} THEN MoveDown(t, 1)
    ELSE IF k = "d" THEN MoveDown(t, t.page \div 2)
    ELSE IF k = "g" THEN MoveUp(t, t.cursor)
    ELSE IF k = "G" THEN MoveDown(t, Len(t.rows))
    ELSE t

\* NewProcessListModel.
NewProcessListModel(ps) ==
    [processes |-> ps,
     table |-> [rows |-> RowsOf(ps), cursor |-> 0, page |-> TableHeight],
     loading |-> FALSE, message |-> "", showHelp |-> FALSE]

NoCmds == [reload |-> FALSE, timer |-> FALSE, tick |-> FALSE, quit |-> FALSE]

\* What an Update returns.
Updated(m, cmds, kill, panic) ==
    [m |-> m, cmds |-> cmds, kill |-> kill, panic |-> panic]

\* append(m.processes[:c], m.processes[c+1:]...) for the 0-based index c.
RemoveAt(ps, c) == SubSeq(ps, 1, c) \o SubSeq(ps, c + 2, Len(ps))

\* The Kill key with a kill that removes the row whatever Kill returned.
KillKeyRemovesAlways(m, killRet, clamps) ==
    IF Len(m.processes) > 0 /\ m.table.cursor < Len(m.processes)
    THEN IF m.table.cursor < 0
         THEN Updated(m, NoCmds, "none", TRUE)
         ELSE Updated([m EXCEPT !.message = "killed",
                         !.processes = RemoveAt(@, m.table.cursor),
                         !.table = SetRows(@, RowsOf(RemoveAt(m.processes,
                                                 m.table.cursor)), clamps)],
                      [NoCmds EXCEPT !.timer = TRUE], killRet, FALSE)
    ELSE Updated(m, NoCmds, "none", FALSE)

\* The Kill key: the guard on the cursor, the index expression (which panics
\* on a negative cursor), Process.Kill, the message and, after a kill that
\* succeeded, the removal and the new rows; then the message timer.
KillKey(m, killRet, clamps) ==
    IF Len(m.processes) > 0 /\ m.table.cursor < Len(m.processes)
    THEN IF m.table.cursor < 0
         THEN Updated(m, NoCmds, "none", TRUE)
         ELSE IF killRet # "ok"
         THEN Updated([m EXCEPT !.message = "failed"],
                      [NoCmds EXCEPT !.timer = TRUE], killRet, FALSE)
         ELSE Updated([m EXCEPT !.message = "killed",
                         !.processes = RemoveAt(@, m.table.cursor),
                         !.table = SetRows(@, RowsOf(RemoveAt(m.processes,
                                                 m.table.cursor)), clamps)],
                      [NoCmds EXCEPT !.timer = TRUE], killRet, FALSE)
    ELSE Updated(m, NoCmds, "none", FALSE)

\* The keys of the key map after the loading test.
KeySwitch(m, k, killRet, clamps) ==
    IF k \in {"q", "ctrl+c"} THEN Updated(m, [NoCmds EXCEPT !.quit = TRUE], "none", FALSE)
    ELSE IF k = "?" THEN Updated([m EXCEPT !.showHelp = ~@], NoCmds, "none", FALSE)
    ELSE IF k \in {"delete", "d"} THEN KillKey(m, killRet, clamps)
    ELSE IF k = "r"
    THEN Updated([m EXCEPT !.loading = TRUE], [NoCmds EXCEPT !.reload = TRUE],
                 "none", FALSE)
    ELSE Updated(m, NoCmds, "none", FALSE)

\* The trailing m.table.Update(msg) of Update, for a key message.
ThenTable(u, k) ==
    IF u.panic \/ u.cmds.quit THEN u
    ELSE [u EXCEPT !.m.table = TableUpdate(@, k)]

\* Update on a key message with every key handled while loading.
UpdateKeyAlways(m, k, killRet, clamps) ==
    ThenTable(KeySwitch(m, k, killRet, clamps), k)

\* Update on a key message: nothing while loading.
UpdateKey(m, k, killRet, clamps) ==
    IF m.loading THEN Updated(m, NoCmds, "none", FALSE)
    ELSE ThenTable(KeySwitch(m, k, killRet, clamps), k)

\* Update on processesLoadedMsg with the loading flag left as it is.
UpdateLoadedStaysBusy(m, ps, clamps) ==
    Updated([m EXCEPT !.processes = ps,
                      !.table = SetRows(@, RowsOf(ps), clamps)],
            NoCmds, "none", FALSE)

\* Update on processesLoadedMsg.
UpdateLoaded(m, ps, clamps) ==
    Updated([m EXCEPT !.loading = FALSE, !.processes = ps,
                      !.table = SetRows(@, RowsOf(ps), clamps)],
            NoCmds, "none", FALSE)

\* Update on timerExpiredMsg.
UpdateTimer(m) == Updated([m EXCEPT !.message = ""], NoCmds, "none", FALSE)

\* Update on spinner.TickMsg: the spinner ticks on only while loading.
UpdateTick(m) ==
    Updated(m, [NoCmds EXCEPT !.tick = m.loading], "none", FALSE)

\* Update on tea.WindowSizeMsg: m.table.SetHeight(msg.Height - 10).
UpdateSize(m, h) ==
    Updated([m EXCEPT !.table.page = h], NoCmds, "none", FALSE)

\* ProcessListModel.View: the spinner alone while loading, else the message,
\* the count and the table.
View(m) ==
    IF m.loading THEN [busy |-> TRUE, message |-> "", rows |-> <<>>]
    ELSE [busy |-> FALSE, message |-> m.message, rows |-> m.table.rows]

IdleUi ==
    [pc |-> "idle", m |-> NewProcessListModel(<<>>), clamps |-> FALSE,
     reloads |-> 0, timers |-> 0, tick |-> FALSE,
     last |-> [msg |-> "none", kill |-> "none"]]

-----------------------------------------------------------------------------
\* Whether the backend returns the records by ranging over a map.
FromMap(p) == p \in {"darwin", "windows"}

\* The sets of failing sub-queries the Finder calls are exercised with.
FailureCases(p) ==
    { F \cap SubQueriesOf(p) :
        F \in {{}, {"name"}, {"cmd"}, {"start", "startAlt"}, SubQueries} }

Idle == [op |-> "none", port |-> 0, F |-> {}, res |-> Nothing(<<>>)]

IdleDk == [pc |-> "idle", readable |-> FALSE, content |-> <<>>, is |-> FALSE, id |-> <<>>]

IdlePj == [pc |-> "idle", fs |-> {}, s |-> DetectStart(<<>>)]

\* A host: one platform, some of its introspection commands runnable, no
\* socket open yet, no Finder call made.  Sockets open and close until the
\* invocation makes its one Finder call on the table as it then is.
Init ==
    /\ platform \in Platforms
    /\ tools \in SUBSET ToolsOf(platform)
    /\ table = <<>>
    /\ last = Idle
    /\ dk = IdleDk
    /\ pj = IdlePj
    /\ kl = IdleKl
    /\ cli = IdleCli
    /\ ui = IdleUi

\* A process (or the kernel) opens a socket.
OpenSocket ==
    \E s \in Sockets :
        /\ last = Idle
        /\ WellFormed(s)
        /\ Len(table) < MaxSockets
        /\ \A i \in 1..Len(table) : table[i] # s
        /\ table' = Append(table, s)
        /\ last' = Idle
        /\ UNCHANGED <<platform, tools, dk, pj, kl, cli, ui>>

\* A socket is closed.
CloseSocket ==
    \E i \in 1..Len(table) :
        /\ last = Idle
        /\ table' = SubSeq(table, 1, i - 1) \o SubSeq(table, i + 1, Len(table))
        /\ last' = Idle
        /\ UNCHANGED <<platform, tools, dk, pj, kl, cli, ui>>

\* One invocation calls FindByPort(port).
CallFindByPort ==
    \E port \in QueryPorts, F \in FailureCases(platform) :
        /\ last = Idle
        /\ last' = [op |-> "find", port |-> port, F |-> F,
                    res |-> FindByPort(platform, table, port, F, tools)]
        /\ UNCHANGED <<platform, tools, table, dk, pj, kl, cli, ui>>

\* One invocation calls ListAll().
Returned(F, r) ==
    \E o \in Orders(Len(r.procs)) :
        /\ FromMap(platform) \/ \A i \in 1..Len(r.procs) : o[i] = i
        /\ last' = [op |-> "list", port |-> 0, F |-> F,
                    res |-> [r EXCEPT !.procs = [i \in 1..Len(r.procs) |-> r.procs[o[i]]]]]

CallListAll ==
    \E F \in FailureCases(platform) :
        /\ last = Idle
        /\ Returned(F, ListAll(platform, table, F, tools))
        /\ UNCHANGED <<platform, tools, table, dk, pj, kl, cli, ui>>

Next == OpenSocket \/ CloseSocket \/ CallFindByPort \/ CallListAll

Spec == Init /\ [][Next]_vars

-----------------------------------------------------------------------------
(* The container detector on its own: every cgroup text of up to MaxLines  *)
(* lines, each the hierarchy prefix and a path of up to two segments.      *)

\* All sequences over S of length 0..n.
SeqsUpTo(S, n) == UNION { [1..k -> S] : k \in 0..n }

\* Path segments: the runtime marker alone, a 13-character identifier, a
\* systemd-style scope name that holds the marker, a short name.
CgroupSegs == {
    cDocker,
    <<"0", "1", "2", "3", "4", "5", "6", "7", "8", "9", "a", "b", "c">>,
    <<"d", "o", "c", "k", "e", "r", "-", "0", "1", "2", "3", "4", "5", "6", ".", "s", "c", "o", "p", "e">>,
    <<"a", "b">> }

CgroupPrefix == <<"0", ":", ":", "/">>

CgroupLines ==
    {CgroupPrefix}
    \cup { CgroupPrefix \o a : a \in CgroupSegs }
    \cup { CgroupPrefix \o a \o cSlash \o b : a \in CgroupSegs, b \in CgroupSegs }

\* The text of a cgroup file with the given lines, each ended by a newline.
RECURSIVE CgroupText(_)
CgroupText(lines) ==
    IF Len(lines) = 0 THEN <<>>
    ELSE lines[1] \o <<"\n">> \o CgroupText(Tail(lines))

DockerInit ==
    /\ platform = "linux" /\ tools = {} /\ table = <<>> /\ last = Idle
    /\ pj = IdlePj
    /\ \/ dk = [pc |-> "ready", readable |-> FALSE, content |-> <<>>,
                is |-> FALSE, id |-> <<>>]
       \/ \E lines \in SeqsUpTo(CgroupLines, MaxLines) :
             dk = [pc |-> "ready", readable |-> TRUE, content |-> CgroupText(lines),
                   is |-> FALSE, id |-> <<>>]
    /\ kl = IdleKl
    /\ cli = IdleCli
    /\ ui = IdleUi

\* What the call leaves: the returned pair next to its input.
DockerReturn(d, r) == [d EXCEPT !.pc = "done", !.is = r.is, !.id = r.id]

\* isDockerProcess(pid) is called.
CallIsDocker ==
    /\ dk.pc = "ready"
    /\ dk' = DockerReturn(dk, IsDockerProcess(dk.readable, dk.content))
    /\ UNCHANGED <<platform, tools, table, last, pj, kl, cli, ui>>

DockerNext == CallIsDocker

SpecDocker == DockerInit /\ [][DockerNext]_vars

-----------------------------------------------------------------------------
(* The project heuristic on its own: every start path of up to MaxDepth    *)
(* segments, absolute or relative, and every placement of an indicator in  *)
(* the directories from the start path up.                                 *)

PathNames == { cHome, <<"u">>, cDotDot }

\* "" (no segment, relative), "/" (no segment, absolute), a/b, /a/b, ...
RawPaths ==
    { (IF abs THEN cSlash ELSE <<>>) \o Join(segs, cSlash) :
        abs \in BOOLEAN, segs \in SeqsUpTo(PathNames, MaxDepth) }

\* A directory and the directories above it, up to where Dir stops moving.
RECURSIVE Ancestors(_)
Ancestors(d) == IF Dir(d) = d THEN {d} ELSE {d} \cup Ancestors(Dir(d))

cReadme == <<"R", "E", "A", "D", "M", "E">>

\* The files of a filesystem that has the indicator number k in the
\* directories of M and a README in the directory c.
FilesOf(M, k, c) ==
    { JoinPath(<<d, indicators[k]>>) : d \in M } \cup { JoinPath(<<c, cReadme>>) }

ProjectInit ==
    /\ platform = "linux" /\ tools = {} /\ table = <<>> /\ last = Idle
    /\ dk = IdleDk
    /\ \E raw \in RawPaths :
         \E M \in SUBSET Ancestors(Clean(raw)) :
           \E k \in {1, Len(indicators)} :
              pj = [pc |-> "run", fs |-> FilesOf(M, k, Clean(raw)),
                    s |-> DetectStart(raw)]
    /\ kl = IdleKl
    /\ cli = IdleCli
    /\ ui = IdleUi

\* detectProject is entered: the empty test, filepath.Clean.
PjEnter ==
    /\ pj.pc = "run" /\ pj.s.pc = "enter"
    /\ pj' = [pj EXCEPT !.s = DetectStep(pj.s, pj.fs)]
    /\ UNCHANGED <<platform, tools, table, last, dk, kl, cli, ui>>

\* One iteration of the ancestor walk.
PjWalk ==
    /\ pj.pc = "run" /\ pj.s.pc = "loop"
    /\ pj' = [pj EXCEPT !.s = DetectStep(pj.s, pj.fs)]
    /\ UNCHANGED <<platform, tools, table, last, dk, kl, cli, ui>>

\* The fallback label.
PjFallback ==
    /\ pj.pc = "run" /\ pj.s.pc = "fallback"
    /\ pj' = [pj EXCEPT !.s = DetectStep(pj.s, pj.fs)]
    /\ UNCHANGED <<platform, tools, table, last, dk, kl, cli, ui>>

ProjectNext == PjEnter \/ PjWalk \/ PjFallback

SpecProject == ProjectInit /\ [][ProjectNext]_vars

\* detectProject is called on a start path and a filesystem.
PjCall ==
    /\ pj = IdlePj
    /\ \E raw \in RawPaths :
         \E M \in SUBSET Ancestors(Clean(raw)) :
           \E k \in {1, Len(indicators)} :
              pj' = [pc |-> "run", fs |-> FilesOf(M, k, Clean(raw)),
                     s |-> DetectStart(raw)]
    /\ UNCHANGED <<platform, tools, table, last, dk, kl, cli, ui>>

ProjectFairInit ==
    /\ platform = "linux" /\ tools = {} /\ table = <<>> /\ last = Idle
    /\ dk = IdleDk /\ pj = IdlePj
    /\ kl = IdleKl
    /\ cli = IdleCli
    /\ ui = IdleUi

\* detectProject returns to its caller.
PjReturn ==
    /\ pj.pc = "run" /\ pj.s.pc = "done"
    /\ pj' = [pj EXCEPT !.pc = "returned"]
    /\ UNCHANGED <<platform, tools, table, last, dk, kl, cli, ui>>

ProjectFairNext == PjCall \/ ProjectNext \/ PjReturn

\* A step of detectProject can be taken: what ENABLED <<ProjectNext>>_vars
\* is, every step changing the position.
PjRunning == pj.pc = "run" /\ pj.s.pc # "done"

\* detectProject runs to its return: a sequential function, every step of
\* which is taken once it is called.  The weak fairness of ProjectNext is
\* written out, its ENABLED as the state predicate PjRunning.
SpecProjectFair ==
    /\ ProjectFairInit /\ [][ProjectFairNext]_vars
    /\ WF_vars(PjReturn)
    /\ ([]<>(~PjRunning) \/ []<><<ProjectNext>>_vars)

-----------------------------------------------------------------------------
(***************************************************************************)
(* Process.Kill called on a PID that was discovered earlier: the process   *)
(* may have gone since, may not be the caller's to signal, and may exit at *)
(* any moment while Kill runs.                                             *)
(***************************************************************************)
KillInit ==
    /\ platform \in Platforms
    /\ tools = {} /\ table = <<>> /\ last = Idle /\ dk = IdleDk /\ pj = IdlePj
    /\ \E pid \in 1..MaxPid : \E alive, permitted \in BOOLEAN :
         kl = KillStart(pid, alive, permitted)
    /\ cli = IdleCli
    /\ ui = IdleUi

KlFindProcess ==
    /\ kl.pc = "called"
    /\ kl' = KillFind(kl, platform)
    /\ UNCHANGED <<platform, tools, table, last, dk, pj, cli, ui>>

KlSigterm ==
    /\ kl.pc = "found"
    /\ kl' = KillSigterm(kl, platform)
    /\ UNCHANGED <<platform, tools, table, last, dk, pj, cli, ui>>

KlTick ==
    /\ kl.pc = "sleep" /\ kl.elapsed < GraceSeconds
    /\ kl' = KillTick(kl)
    /\ UNCHANGED <<platform, tools, table, last, dk, pj, cli, ui>>

KlWake ==
    /\ kl.pc = "sleep" /\ GraceOver(kl)
    /\ kl' = KillWake(kl)
    /\ UNCHANGED <<platform, tools, table, last, dk, pj, cli, ui>>

KlForce ==
    /\ kl.pc = "force"
    /\ kl' = KillForce(kl)
    /\ UNCHANGED <<platform, tools, table, last, dk, pj, cli, ui>>

\* The target process exits while Kill has not returned.
KlProcessExits ==
    /\ kl.pc \in {"called", "found", "sleep", "force"}
    /\ kl.alive
    /\ kl' = Exited(kl)
    /\ UNCHANGED <<platform, tools, table, last, dk, pj, cli, ui>>

KillNext ==
    KlFindProcess \/ KlSigterm \/ KlTick \/ KlWake \/ KlForce \/ KlProcessExits

SpecKill == KillInit /\ [][KillNext]_vars

-----------------------------------------------------------------------------
(***************************************************************************)
(* One invocation of portfinder: a command with its arguments, on a host   *)
(* where some ports are listened on and the introspection may fail.        *)
(***************************************************************************)
\* The argument texts the commands are tried with.
ArgTexts == { <<"3", "0", "0", "0">>, <<"8", "0">>, <<"a", "b", "c">>, <<"8", "x">>, <<>> }

ArgLists == { <<>> } \cup { <<a>> : a \in ArgTexts }
              \cup { << <<"8", "0">>, <<"8", "0">> >> }

\* The ports that may be listened on.
BusyPorts == {80, 3000, 1234}

\* The example list of the README's configuration section.
ExamplePorts == <<3000, 3001, 5173, 5000, 8000>>

\* The list without a configuration file: the README's reference table.
DefaultPorts ==
    <<3000, 3001, 4200, 5173, 5000, 8000, 8080, 3306, 5432, 6379, 27017, 9200,
      9090, 3100, 8983>>

\* config.Load().CommonPorts: the defaults, or the list of config.json.
CommonPortsLists == { DefaultPorts, ExamplePorts, <<3000, 1234>> }

\* What Process.Kill can return on this platform.
KillReturns(p) ==
    { KillRun(p, 1, permitted, e).ret : permitted \in BOOLEAN, e \in ExitPoints }

CliInit ==
    /\ platform \in Platforms
    /\ tools = {} /\ table = <<>> /\ last = Idle /\ dk = IdleDk /\ pj = IdlePj
    /\ kl = IdleKl
    /\ cli = IdleCli
    /\ ui = IdleUi

\* rootCmd.Execute() refuses the arguments: the error is printed, exit 1.
CliUsage ==
    /\ cli.pc = "idle"
    /\ \E cmd \in {"port", "kill"} : \E args \in ArgLists :
         /\ ~ArgsOk(cmd, args)
         /\ cli' = Exit(Msg([cli EXCEPT !.cmd = cmd, !.args = args], "usage"), 1)
    /\ UNCHANGED <<platform, tools, table, last, dk, pj, kl, ui>>

\* portfinder [port]
CliPortCheck ==
    /\ cli.pc = "idle"
    /\ \E args \in ArgLists : \E busy \in SUBSET BusyPorts :
         \E failing, answer \in BOOLEAN : \E killRet \in KillReturns(platform) :
            /\ ArgsOk("port", args)
            /\ cli' = RunPortCheck([cli EXCEPT !.cmd = "port", !.args = args],
                                   busy, failing, answer, killRet)
    /\ UNCHANGED <<platform, tools, table, last, dk, pj, kl, ui>>

\* portfinder check
CliCheckCommon ==
    /\ cli.pc = "idle"
    /\ \E ports \in CommonPortsLists : \E busy \in SUBSET BusyPorts :
         \E failing, tuiErr \in BOOLEAN :
            cli' = RunCheckCommon([cli EXCEPT !.cmd = "check"], ports, busy,
                                  failing, tuiErr)
    /\ UNCHANGED <<platform, tools, table, last, dk, pj, kl, ui>>

\* portfinder list
CliListAll ==
    /\ cli.pc = "idle"
    /\ \E failing, tuiErr \in BOOLEAN :
         cli' = RunListAll([cli EXCEPT !.cmd = "list"], failing, tuiErr)
    /\ UNCHANGED <<platform, tools, table, last, dk, pj, kl, ui>>

\* portfinder kill [port]
CliKillProcess ==
    /\ cli.pc = "idle"
    /\ \E args \in ArgLists : \E busy \in SUBSET BusyPorts :
         \E failing \in BOOLEAN : \E killRet \in KillReturns(platform) :
            /\ ArgsOk("kill", args)
            /\ cli' = RunKillProcess([cli EXCEPT !.cmd = "kill", !.args = args],
                                     busy, failing, killRet)
    /\ UNCHANGED <<platform, tools, table, last, dk, pj, kl, ui>>

CliNext ==
    CliUsage \/ CliPortCheck \/ CliCheckCommon \/ CliListAll \/ CliKillProcess

SpecCli == CliInit /\ [][CliNext]_vars

-----------------------------------------------------------------------------
(***************************************************************************)
(* The interactive list run by Bubble Tea: one Update at a time, on a key, *)
(* a window size, or the message of a command that was started earlier (a  *)
(* reload, a message timer, the spinner's tick), in any order.             *)
(***************************************************************************)
MaxProcs == 2        \* records of a listing
MaxTimers == 2       \* message timers running at once

\* The records a listing can hold: pid i listening on port 79 + i.
UiProcs == { [pid |-> i, port |-> 79 + i] : i \in 1..MaxProcs }

\* The listings ListAll can return: no record twice.
ProcLists ==
    { ps \in SeqsUpTo(UiProcs, MaxProcs) :
         \A i, j \in 1..Len(ps) : ps[i] = ps[j] => i = j }

\* The keys typed.
Keys == {"k", "j", "d", "delete", "q", "?", "r"}

\* The terminal heights of a window size message.
TermHeights == {12, 25}

\* The program after an Update returned u for the message named msg (a key
\* message is named by its key): the new
\* model, the commands started, the end of the program on tea.Quit or on a
\* panic.
Started(r, u, msg) ==
    [r EXCEPT !.m = u.m,
              !.pc = IF u.panic THEN "panic"
                     ELSE IF u.cmds.quit THEN "quit" ELSE "running",
              !.reloads = IF u.cmds.reload THEN @ + 1 ELSE @,
              !.timers = IF u.cmds.timer THEN @ + 1 ELSE @,
              !.tick = u.cmds.tick \/ @,
              !.last = [msg |-> msg, kill |-> u.kill]]

\* ShowProcessList: the program starts on a listing, Init starts the tick.
UiInit ==
    /\ platform = "linux"
    /\ tools = {} /\ table = <<>> /\ last = Idle /\ dk = IdleDk /\ pj = IdlePj
    /\ kl = IdleKl /\ cli = IdleCli
    /\ \E ps \in ProcLists : \E clamps \in BOOLEAN :
         ui = [IdleUi EXCEPT !.pc = "running", !.m = NewProcessListModel(ps),
                             !.clamps = clamps, !.tick = TRUE]

UiKey ==
    /\ ui.pc = "running"
    /\ \E k \in Keys :
       \E killRet \in IF k \in {"delete", "d"} THEN KillReturns(platform) ELSE {"ok"} :
         /\ UpdateKey(ui.m, k, killRet, ui.clamps).cmds.timer
               => ui.timers < MaxTimers
         /\ ui' = Started(ui, UpdateKey(ui.m, k, killRet, ui.clamps), k)
    /\ UNCHANGED <<platform, tools, table, last, dk, pj, kl, cli>>

\* reloadProcesses returns its listing (none when ListAll failed).
UiLoaded ==
    /\ ui.pc = "running" /\ ui.reloads > 0
    /\ \E ps \in ProcLists :
         ui' = Started([ui EXCEPT !.reloads = @ - 1],
                       UpdateLoaded(ui.m, ps, ui.clamps), "loaded")
    /\ UNCHANGED <<platform, tools, table, last, dk, pj, kl, cli>>

\* waitForTimer returns.
UiTimerExpired ==
    /\ ui.pc = "running" /\ ui.timers > 0
    /\ ui' = Started([ui EXCEPT !.timers = @ - 1], UpdateTimer(ui.m), "timer")
    /\ UNCHANGED <<platform, tools, table, last, dk, pj, kl, cli>>

UiSpinnerTick ==
    /\ ui.pc = "running" /\ ui.tick
    /\ ui' = Started([ui EXCEPT !.tick = FALSE], UpdateTick(ui.m), "tick")
    /\ UNCHANGED <<platform, tools, table, last, dk, pj, kl, cli>>

UiWindowSize ==
    /\ ui.pc = "running"
    /\ \E h \in TermHeights :
         ui' = Started(ui, UpdateSize(ui.m, h - 10), "size")
    /\ UNCHANGED <<platform, tools, table, last, dk, pj, kl, cli>>

UiNext == UiKey \/ UiLoaded \/ UiTimerExpired \/ UiSpinnerTick \/ UiWindowSize

SpecUi == UiInit /\ [][UiNext]_vars

\* The command of a reload is a goroutine that calls ListAll, drops its error
\* and returns processesLoadedMsg, and the command of a message timer returns
\* when the timer fires; Bubble Tea hands every message of a command to
\* Update.  A pending reload is therefore applied and a running timer expires.
\* The weak fairness of UiLoaded is written out: it is enabled exactly when
\* UiLoadedEnabled holds, and its steps are the steps that apply a listing.
UiLoadedEnabled == ui.pc = "running" /\ ui.reloads > 0

SpecUiFair ==
    /\ UiInit /\ [][UiNext]_vars
    /\ WF_vars(UiTimerExpired)
    /\ ([]<>(~UiLoadedEnabled)
           \/ []<><<UiLoadedEnabled /\ ui'.last.msg = "loaded">>_vars)

-----------------------------------------------------------------------------
(* Properties of the Finder (specification Spec).                          *)

\* The records the call of this invocation returned.
Records == { last.res.procs[i] : i \in 1..Len(last.res.procs) }

\* The TCP sockets of the table in LISTEN state on a port.
ListenersOn(t, port) ==
    { i \in 1..Len(t) :
        t[i].proto = "tcp" /\ t[i].state = "LISTEN" /\ t[i].lport = port }

\* C1: FindByPort(port) returns (none, no error) whenever no process listens
\* on the port and at least one introspection command could be run.
C1_NoListenerIsNoneNotError ==
    (last.op = "find" /\ tools # {} /\ ListenersOn(table, last.port) = {})
        => (~last.res.err /\ last.res.procs = <<>>)

\* C2: the list ListAll returns holds no two records with the same
\* (pid, port).
C2_ListAllHasNoDuplicates ==
    last.op = "list" =>
        \A i, j \in 1..Len(last.res.procs) :
            (last.res.procs[i].pid = last.res.procs[j].pid
             /\ last.res.procs[i].port = last.res.procs[j].port) => i = j

\* C3: every record FindByPort or ListAll returns has pid > 0.
C3_PidIsPositive == \A r \in Records : r.pid > 0

\* C4: every record FindByPort or ListAll returns has a start time that is
\* not the zero value, and it is the current time when both start-time
\* sources failed.
C4_StartTimeIsSet ==
    \A r \in Records :
        /\ r.startTime # "zero"
        /\ {"start", "startAlt"} \subseteq last.F => r.startTime = "now"

\* C5: a record returned by FindByPort(port) is owned by a process that has
\* a TCP socket in LISTEN state whose local port is exactly the port.
C5_RecordHasListenerOnThePort ==
    last.op = "find" =>
        \A r \in Records :
            \E i \in ListenersOn(table, last.port) :
                table[i].known /\ table[i].pid = r.pid

\* C6: on Linux netstat is invoked if and only if ss cannot be run, and the
\* call returns an error exactly when neither can be run.
C6_NetstatOnlyWithoutSS ==
    (platform = "linux" /\ last.op # "none") =>
        /\ (\E i \in 1..Len(last.res.invoked) : last.res.invoked[i] = "netstat")
               <=> "ss" \notin tools
        /\ last.res.err <=> tools = {}

\* The call of this invocation repeated with no failing sub-query.
Unfailing ==
    IF last.op = "find" THEN FindByPort(platform, table, last.port, {}, tools)
    ELSE ListAll(platform, table, {}, tools)

\* The fields of r that sub-query q fills.
FieldsOf(q, r) ==
    IF q = "name" THEN <<r.name>>
    ELSE IF q = "cmd" THEN <<r.command>>
    ELSE IF q = "cwd" THEN <<r.projectPath>>
    ELSE IF q = "container" THEN <<r.isDocker, r.dockerID>>
    ELSE <<r.startTime>>

\* C7: failing sub-queries neither turn the call into an error nor drop a
\* record, and the fields of the sub-queries that did not fail are what they
\* are when nothing fails.
C7_EnrichmentIsFieldIndependent ==
    last.op # "none" =>
        /\ last.res.err = Unfailing.err
        /\ Len(last.res.procs) = Len(Unfailing.procs)
        /\ \A r \in Records :
             \E i \in 1..Len(Unfailing.procs) :
                /\ Unfailing.procs[i].pid = r.pid
                /\ Unfailing.procs[i].port = r.port
                /\ \A q \in SubQueriesOf(platform) \ last.F :
                      (q = "startAlt" /\ "start" \in last.F)
                      \/ FieldsOf(q, r) = FieldsOf(q, Unfailing.procs[i])

\* The (pid, port) pairs of the table in LISTEN state whose owner is known.
ListeningPairs(t) ==
    { <<t[i].pid, t[i].lport>> :
        i \in { j \in 1..Len(t) : t[j].proto = "tcp" /\ t[j].state = "LISTEN"
                                   /\ t[j].known /\ t[j].pid > 0 } }

\* The positions of the returned list that hold a record of the pair.
RecordsOf(pair) ==
    { i \in 1..Len(last.res.procs) :
        <<last.res.procs[i].pid, last.res.procs[i].port>> = pair }

\* C21: when the introspection command ran and no sub-query failed, ListAll
\* returns exactly one record for each (pid, port) pair in LISTEN state with
\* a known owner, and no record for any other pair: a process listening on k
\* ports has k records.
C21_ListAllIsCompletePerPair ==
    (last.op = "list" /\ tools # {} /\ last.F = {}) =>
        /\ \A pair \in ListeningPairs(table) : Cardinality(RecordsOf(pair)) = 1
        /\ \A i \in 1..Len(last.res.procs) :
              <<last.res.procs[i].pid, last.res.procs[i].port>>
                  \in ListeningPairs(table)

\* FindByPort(port) and ListAll() of this backend on the table as it is, with
\* no failing sub-query.
FindNow(port) == FindByPort(platform, table, port, {}, tools)

ListNow == ListAll(platform, table, {}, tools)

\* The records of ListNow with the port.
ListedOn(port) ==
    { i \in 1..Len(ListNow.procs) : ListNow.procs[i].port = port }

\* C23: on one socket table FindByPort(port) returns a record if and only if
\* ListAll holds a record with that port, and the pid of the record
\* FindByPort returns is the pid of one of them.
C23_FindAgreesWithList ==
    tools # {} =>
        \A port \in QueryPorts :
            /\ FindNow(port).procs # <<>> <=> ListedOn(port) # {}
            /\ \A r \in 1..Len(FindNow(port).procs) :
                  \E i \in ListedOn(port) :
                     ListNow.procs[i].pid = FindNow(port).procs[r].pid

-----------------------------------------------------------------------------
(* Properties of the container detector (specification SpecDocker).        *)

\* The last '/'-separated segment of a line.
LastSegment(line) == Split(line, "/")[Len(Split(line, "/"))]

\* The lines of a cgroup text that hold the container-runtime marker.
MarkerLines(content) ==
    { l \in { Split(content, "\n")[i] : i \in 1..Len(Split(content, "\n")) } :
        Contains(l, cDocker) }

\* The positions of the marker-bearing lines whose last segment is long
\* enough to be cut to an identifier.
IdLines(content) ==
    { i \in 1..Len(Split(content, "\n")) :
        /\ Contains(Split(content, "\n")[i], cDocker)
        /\ Len(LastSegment(Split(content, "\n")[i])) >= ContainerIDLen }

\* The detector answered (false, "") exactly when the cgroup file could not
\* be read or holds no marker.
NegativeExactlyWithoutMarker ==
    (~dk.is /\ dk.id = <<>>) <=> (~dk.readable \/ ~Contains(dk.content, cDocker))

\* C8 as stated: (false, "") exactly when the cgroup text is unreadable or
\* holds no marker, and every non-empty identifier comes with
\* isContainerized and is the first 12 characters of the last segment of a
\* marker-bearing line.
C8_IdIsCutFromAMarkerLine ==
    dk.pc = "done" =>
        /\ NegativeExactlyWithoutMarker
        /\ dk.id # <<>> =>
              /\ dk.is
              /\ \E l \in MarkerLines(dk.content) :
                    /\ Len(LastSegment(l)) >= ContainerIDLen
                    /\ dk.id = Slice(LastSegment(l), 0, ContainerIDLen)

\* C8 amended: (false, "") exactly when the cgroup text is unreadable or
\* holds no marker; an identifier that is neither empty nor "unknown" comes
\* with isContainerized and is the first 12 characters of the last segment
\* of the first marker-bearing line whose last segment has at least 12
\* characters; (true, "unknown") is the answer exactly when the marker is
\* there and no marker-bearing line has such a segment.
C8_IdIsCutOrUnknown ==
    dk.pc = "done" =>
        /\ NegativeExactlyWithoutMarker
        /\ dk.id \notin {<<>>, cUnknown} =>
              /\ dk.is
              /\ \E i \in IdLines(dk.content) :
                    /\ \A k \in IdLines(dk.content) : i <= k
                    /\ dk.id = Slice(LastSegment(Split(dk.content, "\n")[i]),
                                     0, ContainerIDLen)
        /\ (dk.is /\ dk.id = cUnknown)
              <=> (dk.readable /\ Contains(dk.content, cDocker)
                   /\ IdLines(dk.content) = {})

\* The detector cut an identifier out of a line that follows a marker-bearing
\* line with a short last segment.
C8_CutIdReturned ==
    /\ dk.pc = "done" /\ dk.is /\ Len(dk.id) = ContainerIDLen
    /\ \E l \in MarkerLines(dk.content) : Len(LastSegment(l)) < ContainerIDLen

-----------------------------------------------------------------------------
(* Properties of the project heuristic (specification SpecProject).        *)

\* C9: on the empty path detectProject returns "unknown", having tested no
\* indicator and visited no directory.
C9_EmptyPathIsUnknown ==
    (pj.pc = "run" /\ pj.s.raw = <<>>) =>
        /\ pj.s.pc \in {"enter", "done"}
        /\ pj.s.nstat = 0
        /\ pj.s.visited = <<>>
        /\ pj.s.pc = "done" => pj.s.ret = cUnknown

\* detectProject has returned from the empty path on a filesystem that has
\* an indicator in the current directory.
C9_EmptyPathReturned ==
    /\ pj.pc = "run" /\ pj.s.raw = <<>> /\ pj.s.pc = "done"
    /\ JoinPath(<<cDot, indicators[1]>>) \in pj.fs

\* The directories of the filesystem that hold an indicator.
MarkedDirs(fs) ==
    { Dir(f) : f \in { g \in fs : \E i \in 1..Len(indicators) : Base(g) = indicators[i] } }

\* The start directory and its ancestors, the root included, that hold an
\* indicator.
MarkedInChain(c, fs) == Ancestors(c) \cap MarkedDirs(fs)

\* The same without the root "/" and the directory ".", unless that is the
\* start directory itself.
MarkedBelowRoot(c, fs) ==
    { d \in MarkedInChain(c, fs) : d = c \/ d \notin {cSlash, cDot} }

\* ret is the closest directory of the set D, the farthest from the root,
\* when D has a directory.
ClosestIfAny(ret, D) == D = {} \/ (ret \in D /\ \A d \in D : Len(d) <= Len(ret))

\* C10 as stated: from a non-empty start path, when the start directory or
\* an ancestor up to and including the root holds an indicator the closest
\* such directory is returned, and the fallback is taken only when none
\* does.
C10_ClosestInChainToRoot ==
    (pj.pc = "run" /\ pj.s.raw # <<>>) =>
        /\ pj.s.pc = "done" =>
              ClosestIfAny(pj.s.ret, MarkedInChain(Clean(pj.s.raw), pj.fs))
        /\ pj.s.pc = "fallback" => MarkedInChain(Clean(pj.s.raw), pj.fs) = {}

\* C10 amended: the chain is the start directory and its ancestors below the
\* root "/" and the directory "."; those two are tested only as the start
\* directory itself.
C10_ClosestBelowRoot ==
    (pj.pc = "run" /\ pj.s.raw # <<>>) =>
        /\ pj.s.pc = "done" =>
              ClosestIfAny(pj.s.ret, MarkedBelowRoot(Clean(pj.s.raw), pj.fs))
        /\ pj.s.pc = "fallback" => MarkedBelowRoot(Clean(pj.s.raw), pj.fs) = {}

\* detectProject returned an ancestor of the start directory although a
\* farther ancestor holds an indicator too.
C10_ClosestAncestorReturned ==
    /\ pj.pc = "run" /\ pj.s.raw # <<>> /\ pj.s.pc = "done"
    /\ pj.s.ret # Clean(pj.s.raw)
    /\ pj.s.ret \in MarkedDirs(pj.fs)
    /\ \E d \in MarkedBelowRoot(Clean(pj.s.raw), pj.fs) : d # pj.s.ret

\* The '/'-separated parts of the cleaned start path.
StartParts == Split(Clean(pj.s.raw), "/")

\* detectProject has returned from a non-empty start path whose chain of
\* directories, the root included, holds no indicator.
ReturnedUnmarked ==
    /\ pj.pc = "run" /\ pj.s.raw # <<>> /\ pj.s.pc = "done"
    /\ MarkedInChain(Clean(pj.s.raw), pj.fs) = {}

\* The last two segments and the final segment of the cleaned start path.
LastTwoSegments ==
    StartParts[Len(StartParts) - 1] \o cSlash \o StartParts[Len(StartParts)]
FinalSegment ==
    IF Clean(pj.s.raw) = cSlash THEN cSlash ELSE StartParts[Len(StartParts)]

\* The start path lies under a user home directory: /home/<user>/... or
\* /Users/<user>/...
UnderHome ==
    /\ Len(StartParts) >= 4
    /\ StartParts[1] = <<>>
    /\ StartParts[2] \in {cHome, cUsers}

\* The text of the start path holds "home" or "Users" and the path splits
\* into more than four parts.
DeepHomeText ==
    /\ Contains(Clean(pj.s.raw), cHome) \/ Contains(Clean(pj.s.raw), cUsers)
    /\ Len(StartParts) > 4

\* C11 as stated: with no indicator in the chain, the last two segments are
\* returned for every path under a user home directory, whatever its depth,
\* and the final segment for every other path.
C11_LastTwoUnderHome ==
    ReturnedUnmarked =>
        pj.s.ret = IF UnderHome THEN LastTwoSegments ELSE FinalSegment

\* C11 amended: with no indicator in the chain, the last two segments are
\* returned for every path whose text holds "home" or "Users" and that
\* splits on '/' into more than four parts, and the final segment for
\* every other path.
C11_LastTwoWhenDeepHomeText ==
    ReturnedUnmarked =>
        pj.s.ret = IF DeepHomeText THEN LastTwoSegments ELSE FinalSegment

\* detectProject returned the last two segments of an unmarked path.
C11_LastTwoReturned ==
    ReturnedUnmarked /\ DeepHomeText /\ pj.s.ret = LastTwoSegments

\* detectProject has returned the directory in which the walk found an
\* indicator.
ReturnedRoot ==
    /\ pj.pc = "run" /\ pj.s.pc = "done"
    /\ Len(pj.s.visited) > 0
    /\ pj.s.visited[Len(pj.s.visited)] = pj.s.ret
    /\ pj.s.ret \in MarkedDirs(pj.fs)

\* C12: detectProject called on a directory it returned because the
\* directory holds an indicator returns that directory.
C12_IdempotentOnRoots ==
    ReturnedRoot => DetectProject(pj.s.ret, pj.fs) = pj.s.ret

\* detectProject returned a marked ancestor of the start directory, and
\* returns it again when called on it.
C12_RootOfAncestorReturned ==
    /\ ReturnedRoot
    /\ pj.s.ret # pj.s.cwd
    /\ DetectProject(pj.s.ret, pj.fs) = pj.s.ret

\* Every iteration of the walk that goes on to the parent shortens the
\* current path.
WalkShortens ==
    [][(pj.s.pc = "loop" /\ pj'.s.pc = "loop" /\ pj.s.current # <<>>)
          => Len(pj'.s.current) < Len(pj.s.current)]_vars

\* detectProject returns.
WalkEnds == (pj.pc = "run") ~> (pj.pc = "returned")

\* The walk does not go on from a directory whose parent is the filesystem
\* root or the directory itself.
WalkLeavesAtRoot ==
    [][(pj.s.pc = "loop" /\ Dir(pj.s.current) \in {pj.s.current, cSlash})
          => pj'.s.pc # "loop"]_vars

\* C13: for every start path the walk of detectProject ends, every
\* iteration that goes on shortens the current path, and the loop is left
\* at the filesystem root and as soon as the parent is the current
\* directory.
C13_WalkTerminates == WalkShortens /\ WalkLeavesAtRoot /\ WalkEnds

\* detectProject returned after a walk of three directories.
C13_LongWalkReturned ==
    pj.pc = "returned" /\ pj.s.pc = "done" /\ Len(pj.s.visited) >= 3

-----------------------------------------------------------------------------
(* Properties of Process.Kill (specification SpecKill).                    *)

\* The calls of one kind in the log of the Kill run.
Logged(call) == { i \in 1..Len(kl.log) : kl.log[i] = call }

\* SIGTERM was delivered to the process.
Delivered == Logged("SIGTERM") # {}

\* process.Kill() was called, whatever it returned.
ForceIssued == Logged("KILL") \cup Logged("KILL failed") # {}

\* C14: once SIGTERM was delivered and Kill has returned, the force kill was
\* issued if and only if the process still existed when the grace period had
\* elapsed; Kill returned no error when the process had exited during the
\* grace period (and then no force kill was issued) and when the force kill
\* terminated the process that had ignored SIGTERM.
C14_ForceIffAliveAfterGrace ==
    (kl.pc = "done" /\ Delivered) =>
        /\ ForceIssued <=> kl.atGrace
        /\ ~kl.atGrace => kl.ret = "ok"
        /\ Logged("KILL") # {} => kl.ret = "ok"

\* Kill returned no error after a force kill of a process that outlived the
\* grace period.
C14_ForceKilledReturned ==
    /\ kl.pc = "done" /\ Delivered /\ kl.atGrace
    /\ Logged("KILL") # {} /\ kl.ret = "ok"

\* The positions of the log at which the process was probed or force killed.
ProbeAt == Logged("probe")

ForceAt == Logged("KILL") \cup Logged("KILL failed")

\* C19: the calls of Kill are strictly ordered: the first call logged is the
\* SIGTERM request; the probe is made only when the whole grace period has
\* passed, after the SIGTERM; the force kill comes only after both.  When
\* SIGTERM cannot be delivered Kill has returned its error with no second of
\* sleep, no probe and no force kill.
C19_KillIsOrdered ==
    /\ kl.log # <<>> => kl.log[1] \in {"SIGTERM", "SIGTERM failed"}
    /\ \A i \in ProbeAt :
          /\ kl.elapsed = GraceSeconds
          /\ \E j \in Logged("SIGTERM") : j < i
    /\ \A i \in ForceAt :
          /\ \E j \in Logged("SIGTERM") : j < i
          /\ \E j \in ProbeAt : j < i
    /\ Logged("SIGTERM failed") # {} =>
          /\ kl.pc = "done" /\ kl.ret = "failed to send SIGTERM"
          /\ kl.elapsed = 0 /\ kl.log = <<"SIGTERM failed">>

\* Kill ran through all three calls.
C19_AllThreeCallsMade ==
    kl.pc = "done" /\ kl.log = <<"SIGTERM", "probe", "KILL">>

\* C26: once SIGTERM was delivered, Kill returns an error only if the process
\* still exists when Kill returns; a process that exits by itself, between
\* the probe and the force kill included, does not make Kill fail.
C26_ErrorOnlyIfStillAlive ==
    (kl.pc = "done" /\ Delivered /\ kl.ret # "ok") => kl.alive

-----------------------------------------------------------------------------
(* Properties of the command line (specification SpecCli).                 *)

\* A FindByPort or ListAll call of the invocation returned an error.
QueryFailed ==
    \/ \E i \in 1..Len(cli.queries) : cli.queries[i].res = "error"
    \/ cli.listed = "error"

\* Process.Kill was called and returned an error.
KillFailed == cli.kill \notin {"none", "ok"}

\* C15: an invocation exits with a non-zero code whenever its port argument
\* is not numeric, an introspection query failed or a kill failed (the kill
\* of the confirmation prompt included), and with code 0 when none of these
\* happened and the command ran to its end; with a port argument that is not
\* numeric it makes no Finder query and no kill.
C15_ExitCodeTellsFailure ==
    cli.pc = "exited" =>
        /\ (cli.badArg \/ QueryFailed \/ KillFailed) => cli.code # 0
        /\ (~cli.badArg /\ ~QueryFailed /\ ~KillFailed
               /\ cli.tui # "error" /\ cli.out # "usage") => cli.code = 0
        /\ cli.badArg => (cli.queries = <<>> /\ cli.listed = "no"
                            /\ cli.kill = "none")

\* The ports of the configured list, as the check command went through them.
Queried == { cli.queries[i].port : i \in 1..Len(cli.queries) }

ShownPorts == { e.port : e \in cli.shown }

-----------------------------------------------------------------------------
(* Properties of the interactive list (specification SpecUi).              *)

\* A reload was requested and its listing has not been applied yet.
RefreshPending == ui.reloads > 0

\* The Update that led to this state called Process.Kill and got an error.
KillJustFailed == ui.last.kill \notin {"none", "ok"}

\* C17: while a reload is pending the model is loading and the view shows
\* the busy indicator alone; an Update made while it is pending calls no
\* Process.Kill, and changes the process list only when it is the Update
\* that applies the reloaded listing.  At most one reload is pending, so the
\* listing is never applied in the same Update as a kill.
C17_RefreshIsSerialized ==
    /\ [](RefreshPending =>
             /\ ui.reloads = 1
             /\ ui.m.loading /\ View(ui.m).busy)
    /\ [][RefreshPending =>
             /\ ui'.last.kill = "none"
             /\ ui'.m.processes # ui.m.processes => ui'.last.msg = "loaded"]_vars

\* The Kill key was pressed on a listed record while a reload was pending.
C17_KillKeyWhileLoading ==
    /\ RefreshPending /\ ui.last.msg = "delete"
    /\ ui.m.processes # <<>>
    /\ ui.m.table.cursor \in 0..(Len(ui.m.processes) - 1)

\* C18: an Update whose Process.Kill returned an error (as it does for a PID
\* that has vanished) sets the failure message, leaves the process list and
\* the table rows as they were, and leaves the program running.
C18_FailedKillChangesNothing ==
    [][ui'.last.kill \notin {"none", "ok"} =>
          /\ ui'.m.message = "failed"
          /\ ui'.m.processes = ui.m.processes
          /\ ui'.m.table.rows = ui.m.table.rows
          /\ ui'.pc = "running"]_vars

\* The kill of a listed record failed because its process had gone.
C18_KillOfVanishedPidFailed ==
    /\ ui.last.kill = "failed to send SIGTERM"
    /\ ui.m.message = "failed" /\ ui.m.processes # <<>> /\ ui.pc = "running"

\* C20: the Kill key never indexes the process list out of range; a kill that
\* succeeded removes exactly the record at the cursor and keeps the others in
\* their order; after every Update the table rows are the rows of the
\* process list, one for one and in order.
C20_KillStaysInsideTheList ==
    /\ [](ui.pc # "panic" /\ ui.m.table.rows = RowsOf(ui.m.processes))
    /\ [][ui'.last.kill = "ok" =>
             /\ ui.m.table.cursor \in 0..(Len(ui.m.processes) - 1)
             /\ ui'.m.processes = RemoveAt(ui.m.processes, ui.m.table.cursor)]_vars

\* C22: an Update on the Quit key ends the program, whatever the model holds
\* (a reload pending, a status message shown).
C22_QuitKeyEndsTheProgram ==
    [][ui'.last.msg = "q" => ui'.pc = "quit"]_vars

\* C25 (the timers run for the same time, so they expire in the order they
\* were started): the expiry of a timer while a later one is still running
\* leaves the message, which is the message of the latest kill, in place; a
\* message is cleared only by the Update on an expiry; and a message that is
\* set always has a timer running that will clear it.
C25_MessageClearedByItsOwnTimer ==
    /\ [][(ui'.last.msg = "timer" /\ ui.timers >= 2 /\ ui.m.message # "")
             => ui'.m.message # ""]_vars
    /\ [][(ui.m.message # "" /\ ui'.m.message = "") => ui'.last.msg = "timer"]_vars
    /\ [][ui.m.message # "" => ui.timers > 0]_vars

\* C24: at most one reload is pending at any time, and a model that is
\* loading gets the Update of processesLoadedMsg, which clears the loading
\* flag (reloadProcesses returns that message whether ListAll failed or not,
\* with no record when it failed).
C24_RefreshIsDelivered ==
    /\ [](ui.reloads <= 1)
    /\ [](ui.m.loading => RefreshPending)
    /\ (ui.m.loading ~> (~ui.m.loading /\ ui.last.msg = "loaded"))

\* A reload that returned no record was applied and cleared the flag.
C24_EmptyReloadApplied ==
    /\ ui.last.msg = "loaded" /\ ~ui.m.loading /\ ui.reloads = 0
    /\ ui.m.processes = <<>>

=============================================================================
